---- MODULE Spec2Model ----
(***************************************************************************)
(* Model of the scouting ELT pipeline: the per-entity transforms and       *)
(* transform_all / save_data_to_db of src/src/transformation.py, the       *)
(* tables of src/src/db_utils.py, the validators of src/src/validation.py  *)
(* and the player aggregate of src/src/analysis.py.                        *)
(*                                                                         *)
(* A LazyFrame is a record [cols, rows]: cols is FALSE for the zero-column *)
(* frame pl.LazyFrame(), rows is the sequence of rows in input order.      *)
(* A collected DataFrame produced by a transform is [cols, rows] with rows *)
(* a set: unique() is called without maintain_order, so the order of the   *)
(* output rows is not fixed by the code.                                   *)
(* Nullable numbers use the value NULL; xg and g_xg are kept in tenths.    *)
(***************************************************************************)
EXTENDS Integers, Sequences, FiniteSets, Bags, TLC

VARIABLES call, result,
          landing, datasets, transformed, trace, db, pc, log, conn, runs,
          v_call, report,
          a_db, agg

vars == <<call, result, landing, datasets, transformed, trace, db, pc, log,
          conn, runs, v_call, report, a_db, agg>>

\* ------------------------------------------------------------------ bounds
MaxRows == 2

MaxLanding == 1

MaxRuns == 2

MaxValRows == 2

MaxStatRows == 2

MaxPlayers == 4

MaxFiles == 3

\* ------------------------------------------------------------- value sets
NULL == -99

None == "None"

TeamIds == {"T1", "T2"}

PlayerIds == {"P1", "P2"}

MatchIds == {"M1", "M2"}

EventIds == {"E1", "E2"}

SeqsUpTo(S, n) == UNION {[1..k -> S] : k \in 0..n}

Frame(rs) == [cols |-> TRUE, rows |-> rs]

ZeroColsLazy == [cols |-> FALSE, rows |-> <<>>]

EmptyDataFrame == [cols |-> FALSE, rows |-> {}]

\* ------------------------------------------------------------------ dates
\* A date string is [form, a, b, c]: "iso" is written a-b-c, "slash" is
\* written a/b/c, "junk" is a text without a date, "none" is None or "".
NoDate == [form |-> "none", a |-> 0, b |-> 0, c |-> 0]

JunkDate == [form |-> "junk", a |-> 0, b |-> 0, c |-> 0]

IsoDate(y, m, d) == [form |-> "iso", a |-> y, b |-> m, c |-> d]

SlashDate(x, y, z) == [form |-> "slash", a |-> x, b |-> y, c |-> z]

DaysIn(y, m) ==
    IF m \in {4, 6, 9, 11} THEN 30
    ELSE IF m = 2 THEN (IF (y % 4 = 0 /\ y % 100 # 0) \/ y % 400 = 0 THEN 29 ELSE 28)
    ELSE 31

ValidYMD(y, m, d) == m \in 1..12 /\ d >= 1 /\ d <= DaysIn(y, m)

\* dateutil.parser.parse with its defaults (dayfirst=False, yearfirst=False):
\* a four-digit first number is the year and the rest month, day; a/b/c
\* with the year last is read month/day/year, and day/month/year only when
\* a is above 12. A date that does not exist is a ValueError, hence None.
parse_date(s) ==
    IF s.form = "none" \/ s.form = "junk" THEN NoDate
    ELSE IF s.form = "iso"
         THEN (IF ValidYMD(s.a, s.b, s.c) THEN IsoDate(s.a, s.b, s.c) ELSE NoDate)
    ELSE IF s.a > 12
         THEN (IF ValidYMD(s.c, s.b, s.a) THEN IsoDate(s.c, s.b, s.a) ELSE NoDate)
    ELSE IF ValidYMD(s.c, s.a, s.b) THEN IsoDate(s.c, s.a, s.b)
    ELSE NoDate

today == [y |-> 2026, m |-> 11, d |-> 6]

calculate_ageYearsOnly(dob) ==
    LET p == parse_date(dob)
    IN IF p.form = "none" THEN NULL ELSE today.y - p.a

calculate_age(dob) ==
    LET p == parse_date(dob)
    IN IF p.form = "none" THEN NULL
       ELSE today.y - p.a
            - (IF today.m < p.b \/ (today.m = p.b /\ today.d < p.c) THEN 1 ELSE 0)

\* str.lower() on the raw position strings of the model
lower(s) ==
    CASE s = "GK" -> "gk"
      [] s = "Goalkeeper" -> "goalkeeper"
      [] s = "CB" -> "cb"
      [] s = "Centre-Back" -> "centre-back"
      [] s = "DEFENDER" -> "defender"
      [] s = "Midfielder" -> "midfielder"
      [] s = "CM" -> "cm"
      [] s = "Central Midfielder" -> "central midfielder"
      [] s = "FORWARD" -> "forward"
      [] s = "Striker" -> "striker"
      [] s = "ST" -> "st"
      [] s = "CENTER_BACK" -> "center_back"
      [] s = "Winger" -> "winger"
      [] OTHER -> s

PositionCategory(position) ==
    IF position \in {"gk", "goalkeeper"} THEN "Goalkeeper"
    ELSE IF position \in {"defender", "cb", "centre-back"} THEN "Defender"
    ELSE IF position \in {"midfielder", "cm", "central midfielder"} THEN "Midfielder"
    ELSE IF position \in {"forward", "striker", "st"} THEN "Forward"
    ELSE "Unknown"

map_player_positionNoLower(position) ==
    IF position = None \/ position = "" THEN "Unknown"
    ELSE PositionCategory(position)

map_player_position(position) ==
    IF position = None \/ position = "" THEN "Unknown"
    ELSE PositionCategory(lower(position))

\* ---------------------------------------------------------- row domains
TeamRows == [team_id : TeamIds, name : {"n1", "n2"}]

PlayerRows == [player_id : PlayerIds, team_id : TeamIds,
               position : {"gk"},
               date_of_birth : {IsoDate(1990, 12, 24), JunkDate},
               contract_until : {SlashDate(30, 6, 2027)}]

MatchRows == [match_id : MatchIds, home_team_id : TeamIds,
              away_team_id : {"T1"},
              match_date : {IsoDate(2024, 1, 15), SlashDate(20, 1, 2024)}]

StatRows == [player_id : PlayerIds, match_id : MatchIds, goals : {2},
             assists : {1}, shots : {1}, xg : {NULL, -3, 8, 15}]

EventRows == [event_id : EventIds, match_id : MatchIds, team_id : TeamIds,
              player_id : PlayerIds, minute : {10}]

\* --------------------------------------------------------- key functions
\* the subset= column lists of the unique() calls
TeamKey == <<"team_id">>

PlayerKey == <<"player_id">>

MatchKey == <<"match_id">>

StatKey == <<"player_id", "match_id">>

EventKey == <<"event_id">>

\* the values of a row in the columns of subset
KeyValues(r, subset) == [i \in DOMAIN subset |-> r[subset[i]]]

\* select(col) of a collected frame, used as the parent key list
SelectKeys(df, col) == {r[col] : r \in df.rows}

\* --------------------------------------------------------------- unique
\* LazyFrame.unique(subset=key, keep="last") followed by collect()
UniqueKeepFirst(rows, subset) ==
    {rows[i] : i \in {i \in DOMAIN rows :
                        \A j \in DOMAIN rows :
                            KeyValues(rows[j], subset) = KeyValues(rows[i], subset) => j >= i}}

Unique(rows, subset) ==
    {rows[i] : i \in {i \in DOMAIN rows :
                        \A j \in DOMAIN rows :
                            KeyValues(rows[j], subset) = KeyValues(rows[i], subset) => j <= i}}

\* LazyFrame.filter(pred): keeps the rows for which pred is true, in order
RECURSIVE Filter(_, _)
Filter(rows, keep) ==
    IF rows = <<>> THEN <<>>
    ELSE IF Head(rows) \in keep THEN <<Head(rows)>> \o Filter(Tail(rows), keep)
    ELSE Filter(Tail(rows), keep)

\* ------------------------------------------------------------ transforms
\* What reaches the caller when an exception leaves a function
Raised == [cols |-> FALSE, rows |-> {}, raised |-> TRUE]

\* collect() raises ColumnNotFoundError when the plan names a column the
\* frame does not have (the columns of a frame are those of its rows)
MissingColumn(df, needed) ==
    \E i \in DOMAIN df.rows : ~(needed \subseteq DOMAIN df.rows[i])

\* the columns each transform reads without looking at df.columns first
TeamColumns == {"team_id"}

PlayerColumns == {"team_id", "player_id", "date_of_birth"}

MatchColumns == {"match_id"}

StatColumns == {"player_id", "match_id", "xg", "shots", "goals", "assists"}

EventColumns == {"match_id", "team_id", "player_id", "event_id"}

transform_teams(teams_df) ==
    IF ~teams_df.cols THEN EmptyDataFrame
    ELSE IF MissingColumn(teams_df, TeamColumns) THEN EmptyDataFrame
    ELSE [cols |-> TRUE, rows |-> Unique(teams_df.rows, TeamKey)]

NormalizePlayer(r) ==
    [r EXCEPT !.position = map_player_position(r.position),
              !.date_of_birth = parse_date(r.date_of_birth),
              !.contract_until = parse_date(r.contract_until)]

WithAge(r) ==
    [player_id |-> r.player_id, team_id |-> r.team_id, position |-> r.position,
     date_of_birth |-> r.date_of_birth, contract_until |-> r.contract_until,
     age |-> calculate_age(r.date_of_birth)]

transform_playersFilterBeforeTry(players_df, team_id_list) ==
    IF ~players_df.cols THEN EmptyDataFrame
    ELSE IF MissingColumn(players_df, {"team_id"}) THEN Raised
    ELSE IF MissingColumn(players_df, PlayerColumns) THEN EmptyDataFrame
    ELSE LET norm == [i \in DOMAIN players_df.rows |-> NormalizePlayer(players_df.rows[i])]
             kept == Filter(norm, {r \in {norm[i] : i \in DOMAIN norm} :
                                     r.team_id \in team_id_list})
         IN [cols |-> TRUE, rows |-> {WithAge(r) : r \in Unique(kept, PlayerKey)}]

transform_players(players_df, team_id_list) ==
    IF ~players_df.cols THEN EmptyDataFrame
    ELSE IF MissingColumn(players_df, PlayerColumns) THEN EmptyDataFrame
    ELSE LET norm == [i \in DOMAIN players_df.rows |-> NormalizePlayer(players_df.rows[i])]
             kept == Filter(norm, {r \in {norm[i] : i \in DOMAIN norm} :
                                     r.team_id \in team_id_list})
         IN [cols |-> TRUE, rows |-> {WithAge(r) : r \in Unique(kept, PlayerKey)}]

NormalizeMatch(r) == [r EXCEPT !.match_date = parse_date(r.match_date)]

transform_matches(matches_df) ==
    IF ~matches_df.cols THEN EmptyDataFrame
    ELSE IF MissingColumn(matches_df, MatchColumns) THEN EmptyDataFrame
    ELSE [cols |-> TRUE,
          rows |-> Unique([i \in DOMAIN matches_df.rows |-> NormalizeMatch(matches_df.rows[i])], MatchKey)]

\* when(xg < 0).then(None).otherwise(xg): a null comparison is not true
FixNegativeXg(r) == [r EXCEPT !.xg = IF r.xg # NULL /\ r.xg < 0 THEN NULL ELSE r.xg]

\* when(xg > shots).then(None).otherwise(xg); xg is in tenths
FixXgAboveShotsClamp(r) ==
    [r EXCEPT !.xg = IF r.xg # NULL /\ r.xg > 10 * r.shots THEN 10 * r.shots ELSE r.xg]

FixXgAboveShots(r) ==
    [r EXCEPT !.xg = IF r.xg # NULL /\ r.xg > 10 * r.shots THEN NULL ELSE r.xg]

FixXg(r) == FixXgAboveShots(FixNegativeXg(r))

WithDerivedNullAsZero(r) ==
    [player_id |-> r.player_id, match_id |-> r.match_id, goals |-> r.goals,
     assists |-> r.assists, shots |-> r.shots, xg |-> r.xg,
     goal_contributions |-> r.goals + r.assists,
     g_xg |-> IF r.xg = NULL THEN 10 * r.goals ELSE 10 * r.goals - r.xg]

\* goals + assists, and goals - xg on the fixed xg (null-propagating)
WithDerived(r) ==
    [player_id |-> r.player_id, match_id |-> r.match_id, goals |-> r.goals,
     assists |-> r.assists, shots |-> r.shots, xg |-> r.xg,
     goal_contributions |-> r.goals + r.assists,
     g_xg |-> IF r.xg = NULL THEN NULL ELSE 10 * r.goals - r.xg]

StatsFilterEither(stats_df, player_id_list, match_id_list) ==
    IF ~stats_df.cols THEN EmptyDataFrame
    ELSE IF MissingColumn(stats_df, StatColumns) THEN EmptyDataFrame
    ELSE LET rs == stats_df.rows
             kept == Filter(rs, {r \in {rs[i] : i \in DOMAIN rs} :
                                   r.player_id \in player_id_list
                                   \/ r.match_id \in match_id_list})
             fixed == [i \in DOMAIN kept |-> FixXg(kept[i])]
         IN [cols |-> TRUE,
             rows |-> {WithDerived(r) : r \in Unique(fixed, StatKey)}]

transform_player_match_stats(stats_df, player_id_list, match_id_list) ==
    IF ~stats_df.cols THEN EmptyDataFrame
    ELSE IF MissingColumn(stats_df, StatColumns) THEN EmptyDataFrame
    ELSE LET rs == stats_df.rows
             kept == Filter(rs, {r \in {rs[i] : i \in DOMAIN rs} :
                                   r.player_id \in player_id_list
                                   /\ r.match_id \in match_id_list})
             fixed == [i \in DOMAIN kept |-> FixXg(kept[i])]
         IN [cols |-> TRUE,
             rows |-> {WithDerived(r) : r \in Unique(fixed, StatKey)}]

transform_match_eventsDedupFirst(events_df, match_id_list, team_id_list, player_id_list) ==
    IF ~events_df.cols THEN EmptyDataFrame
    ELSE IF MissingColumn(events_df, EventColumns) THEN EmptyDataFrame
    ELSE [cols |-> TRUE,
          rows |-> {r \in Unique(events_df.rows, EventKey) :
                      /\ r.match_id \in match_id_list
                      /\ r.team_id \in team_id_list
                      /\ r.player_id \in player_id_list}]

transform_match_events(events_df, match_id_list, team_id_list, player_id_list) ==
    IF ~events_df.cols THEN EmptyDataFrame
    ELSE IF MissingColumn(events_df, EventColumns) THEN EmptyDataFrame
    ELSE LET rs == events_df.rows
             kept == Filter(rs, {r \in {rs[i] : i \in DOMAIN rs} :
                                   r.match_id \in match_id_list
                                   /\ r.team_id \in team_id_list
                                   /\ r.player_id \in player_id_list})
         IN [cols |-> TRUE, rows |-> Unique(kept, EventKey)]


\* ================================================== the transform functions
\* One call of a transform_<entity> function on a bounded input.
TeamKeyLists == {{"T1"}, TeamIds}

PlayerKeyLists == {{"P1"}, PlayerIds}

MatchKeyLists == {{"M1"}}

LazyFrames(S, n) == {ZeroColsLazy} \cup {Frame(rs) : rs \in SeqsUpTo(S, n)}

Call(fn, df, tl, pl, ml) ==
    [fn |-> fn, df |-> df, team_id_list |-> tl, player_id_list |-> pl,
     match_id_list |-> ml]

Calls ==
    {Call("transform_teams", d, {}, {}, {}) : d \in LazyFrames(TeamRows, MaxRows)}
    \cup {Call("transform_players", d, tl, {}, {}) :
            d \in LazyFrames(PlayerRows, MaxRows), tl \in TeamKeyLists}
    \cup {Call("transform_matches", d, {}, {}, {}) : d \in LazyFrames(MatchRows, MaxRows)}
    \cup {Call("transform_player_match_stats", d, {}, pl, ml) :
            d \in LazyFrames(StatRows, MaxRows), pl \in PlayerKeyLists,
            ml \in MatchKeyLists}
    \cup {Call("transform_match_events", d, tl, pl, ml) :
            d \in LazyFrames(EventRows, MaxRows), tl \in TeamKeyLists,
            pl \in PlayerKeyLists, ml \in MatchKeyLists}

Pending == [done |-> FALSE, df |-> EmptyDataFrame]

PipelineIdle ==
    /\ landing = <<>> /\ datasets = <<>> /\ transformed = <<>> /\ trace = <<>>
    /\ db = <<>> /\ pc = "off" /\ log = {} /\ conn = "closed" /\ runs = 0

ValidationIdle == v_call = <<>> /\ report = <<>>

AnalysisIdle == a_db = <<>> /\ agg = <<>>

TransformIdle == call = <<>> /\ result = Pending

InitTransform ==
    /\ call \in Calls
    /\ result = Pending
    /\ PipelineIdle /\ ValidationIdle /\ AnalysisIdle

Returns(fn, df) ==
    /\ call.fn = fn
    /\ ~result.done
    /\ result' = [done |-> TRUE, df |-> df]
    /\ UNCHANGED <<call, landing, datasets, transformed, trace, db, pc, log,
                   conn, runs, v_call, report, a_db, agg>>

TransformTeams == Returns("transform_teams", transform_teams(call.df))

TransformPlayers ==
    Returns("transform_players", transform_players(call.df, call.team_id_list))

TransformMatches == Returns("transform_matches", transform_matches(call.df))

TransformPlayerMatchStats ==
    Returns("transform_player_match_stats",
            transform_player_match_stats(call.df, call.player_id_list,
                                         call.match_id_list))

TransformMatchEvents ==
    Returns("transform_match_events",
            transform_match_events(call.df, call.match_id_list,
                                   call.team_id_list, call.player_id_list))

NextTransform ==
    \/ TransformTeams
    \/ TransformPlayers
    \/ TransformMatches
    \/ TransformPlayerMatchStats
    \/ TransformMatchEvents

SpecTransform == InitTransform /\ [][NextTransform]_vars

\* ---- the same calls, and calls on a frame that lacks one of the columns
DropColumn(r, c) == [k \in DOMAIN r \ {c} |-> r[k]]

BrokenFrames(S, needed) == {Frame(<<DropColumn(r, c)>>) : r \in S, c \in needed}

BrokenCalls ==
    {Call("transform_teams", d, {}, {}, {}) : d \in BrokenFrames(TeamRows, TeamColumns)}
    \cup {Call("transform_players", d, tl, {}, {}) :
            d \in BrokenFrames(PlayerRows, PlayerColumns), tl \in TeamKeyLists}
    \cup {Call("transform_matches", d, {}, {}, {}) :
            d \in BrokenFrames(MatchRows, MatchColumns)}
    \cup {Call("transform_player_match_stats", d, {}, pl, ml) :
            d \in BrokenFrames(StatRows, StatColumns), pl \in PlayerKeyLists,
            ml \in MatchKeyLists}
    \cup {Call("transform_match_events", d, tl, pl, ml) :
            d \in BrokenFrames(EventRows, EventColumns), tl \in TeamKeyLists,
            pl \in PlayerKeyLists, ml \in MatchKeyLists}

InitTransformAny ==
    /\ call \in Calls \cup BrokenCalls
    /\ result = Pending
    /\ PipelineIdle /\ ValidationIdle /\ AnalysisIdle

SpecTransformAny == InitTransformAny /\ [][NextTransform]_vars

ColumnsRead(fn) ==
    CASE fn = "transform_teams" -> TeamColumns
      [] fn = "transform_players" -> PlayerColumns
      [] fn = "transform_matches" -> MatchColumns
      [] fn = "transform_player_match_stats" -> StatColumns
      [] fn = "transform_match_events" -> EventColumns

DateYears == {1990, 2024}

DateMonths == {1, 2, 11, 12, 13}

DateDays == {1, 5, 6, 7, 12, 13, 29, 30, 31}

DateStrings ==
    {NoDate, JunkDate}
    \cup {IsoDate(y, m, d) : y \in DateYears, m \in DateMonths, d \in DateDays}
    \cup {SlashDate(d, m, y) : y \in DateYears, m \in DateMonths, d \in DateDays}

DateCalls == [fn : {"parse_date", "calculate_age"}, arg : DateStrings]

RawPositions ==
    {None, "", "   ", " gk", "unknown", "winger", "Winger", "CENTER_BACK",
     "gk", "GK", "goalkeeper", "Goalkeeper",
     "defender", "DEFENDER", "cb", "CB", "centre-back", "Centre-Back",
     "midfielder", "Midfielder", "cm", "CM", "central midfielder",
     "Central Midfielder",
     "forward", "FORWARD", "striker", "Striker", "st", "ST"}

PositionCalls == [fn : {"map_player_position"}, arg : RawPositions]

NoValue == [done |-> FALSE, value |-> NULL]

InitDates ==
    /\ call \in DateCalls \cup PositionCalls
    /\ result = NoValue
    /\ PipelineIdle /\ ValidationIdle /\ AnalysisIdle

ReturnsValue(fn, value) ==
    /\ call.fn = fn
    /\ ~result.done
    /\ result' = [done |-> TRUE, value |-> value]
    /\ UNCHANGED <<call, landing, datasets, transformed, trace, db, pc, log,
                   conn, runs, v_call, report, a_db, agg>>

ParseDate == ReturnsValue("parse_date", parse_date(call.arg))

CalculateAge == ReturnsValue("calculate_age", calculate_age(call.arg))

MapPlayerPosition ==
    ReturnsValue("map_player_position", map_player_position(call.arg))

NextDates ==
    \/ ParseDate
    \/ CalculateAge
    \/ MapPlayerPosition

SpecDates == InitDates /\ [][NextDates]_vars

\* C15: parse_date returns the ISO string of the same calendar date for a
\* valid YYYY-MM-DD input and for a valid DD/MM/YYYY input, also when the
\* day is 1..12, and returns null for null, empty or unparseable input.
C15_ParseDateKeepsCalendarDate ==
    (result.done /\ call.fn = "parse_date") =>
        LET s == call.arg
        IN /\ (s.form = "iso" /\ ValidYMD(s.a, s.b, s.c))
                 => result.value = IsoDate(s.a, s.b, s.c)
           /\ (s.form = "slash" /\ ValidYMD(s.c, s.b, s.a))
                 => result.value = IsoDate(s.c, s.b, s.a)
           /\ s.form \in {"none", "junk"} => result.value = NoDate
           /\ (s.form = "iso" /\ ~ValidYMD(s.a, s.b, s.c)) => result.value = NoDate

\* C16: calculate_age of a date of birth written YYYY-MM-DD is the
\* processing year minus the birth year, minus one exactly when the
\* processing (month, day) is before the birth (month, day); it is null for
\* a null, empty or unparseable date of birth.
C16_AgeInWholeYears ==
    (result.done /\ call.fn = "calculate_age") =>
        LET s == call.arg
            before == today.m < s.b \/ (today.m = s.b /\ today.d < s.c)
        IN /\ (s.form = "iso" /\ ValidYMD(s.a, s.b, s.c))
                 => result.value = today.y - s.a - (IF before THEN 1 ELSE 0)
           /\ (s.form \in {"none", "junk"} \/ (s.form = "iso" /\ ~ValidYMD(s.a, s.b, s.c)))
                 => result.value = NULL

C16_Witness ==
    /\ result.done
    /\ call.fn = "calculate_age"
    /\ call.arg = IsoDate(1990, today.m, today.d + 1)
    /\ result.value = today.y - 1990 - 1

\* ---- what a call's rows are expected to become
KeyOf(fn, r) ==
    CASE fn = "transform_teams" -> r.team_id
      [] fn = "transform_players" -> r.player_id
      [] fn = "transform_matches" -> r.match_id
      [] fn = "transform_player_match_stats" -> <<r.player_id, r.match_id>>
      [] fn = "transform_match_events" -> r.event_id

FKsResolve(c, r) ==
    CASE c.fn = "transform_players" -> r.team_id \in c.team_id_list
      [] c.fn = "transform_player_match_stats" ->
            r.player_id \in c.player_id_list /\ r.match_id \in c.match_id_list
      [] c.fn = "transform_match_events" ->
            /\ r.match_id \in c.match_id_list
            /\ r.team_id \in c.team_id_list
            /\ r.player_id \in c.player_id_list
      [] OTHER -> TRUE

CleanedRow(fn, r) ==
    CASE fn = "transform_players" -> WithAge(NormalizePlayer(r))
      [] fn = "transform_matches" -> NormalizeMatch(r)
      [] fn = "transform_player_match_stats" -> WithDerived(FixXg(r))
      [] OTHER -> r

\* the input positions whose row reaches deduplication
Reaching(c) == {i \in DOMAIN c.df.rows : FKsResolve(c, c.df.rows[i])}

LastOfKey(c, i) ==
    \A j \in Reaching(c) :
        KeyOf(c.fn, c.df.rows[j]) = KeyOf(c.fn, c.df.rows[i]) => j <= i

\* C1: the output of every transform has at most one row per natural key,
\* and for every key among the rows reaching deduplication the retained row
\* is the cleaned copy of the one that was last in input order.
C1_LastSeenWins ==
    result.done =>
        /\ \A o1, o2 \in result.df.rows :
              KeyOf(call.fn, o1) = KeyOf(call.fn, o2) => o1 = o2
        /\ \A i \in Reaching(call) :
              LastOfKey(call, i) => CleanedRow(call.fn, call.df.rows[i]) \in result.df.rows

C1_Witness ==
    /\ result.done
    /\ call.fn = "transform_player_match_stats"
    /\ \E i, j \in Reaching(call) :
          /\ i < j
          /\ KeyOf(call.fn, call.df.rows[i]) = KeyOf(call.fn, call.df.rows[j])
          /\ CleanedRow(call.fn, call.df.rows[i]) # CleanedRow(call.fn, call.df.rows[j])
          /\ CleanedRow(call.fn, call.df.rows[j]) \in result.df.rows

\* C2: a players, player_match_stats or match_events row is in the output
\* only if every one of its foreign keys is in the parent key list passed
\* in; a row failing any of them never appears.
C2_NoOrphanInOutput ==
    result.done =>
        /\ \A o \in result.df.rows : FKsResolve(call, o)
        /\ \A i \in DOMAIN call.df.rows :
              ~FKsResolve(call, call.df.rows[i])
                 => CleanedRow(call.fn, call.df.rows[i]) \notin result.df.rows

C2_Witness ==
    /\ result.done
    /\ call.fn = "transform_match_events"
    /\ result.df.rows # {}
    /\ \E i \in DOMAIN call.df.rows :
          /\ call.df.rows[i].match_id \notin call.match_id_list
          /\ call.df.rows[i].team_id \in call.team_id_list
          /\ call.df.rows[i].player_id \in call.player_id_list

\* C4: after transform_player_match_stats every output row has xg null or
\* 0 <= xg <= shots, and a non-orphaned row whose xg was negative or above
\* shots is still in the output (when it is the retained copy of its key)
\* with xg null, not clamped.
C4_XgFixedToNull ==
    (result.done /\ call.fn = "transform_player_match_stats") =>
        /\ \A o \in result.df.rows :
              o.xg = NULL \/ (o.xg >= 0 /\ o.xg <= 10 * o.shots)
        /\ \A i \in Reaching(call) :
              LET r == call.df.rows[i]
              IN (LastOfKey(call, i) /\ r.xg # NULL
                    /\ (r.xg < 0 \/ r.xg > 10 * r.shots))
                 => \E o \in result.df.rows :
                       /\ <<o.player_id, o.match_id>> = <<r.player_id, r.match_id>>
                       /\ o.goals = r.goals /\ o.shots = r.shots
                       /\ o.xg = NULL

C4_Witness ==
    /\ result.done
    /\ call.fn = "transform_player_match_stats"
    /\ \E i \in Reaching(call) :
          /\ call.df.rows[i].xg = 15
          /\ LastOfKey(call, i)
    /\ \E o \in result.df.rows : o.xg = NULL

\* C5: every output row of transform_player_match_stats has
\* goal_contributions = goals + assists and g_xg = goals - xg on the xg
\* left by the validity fix, null whenever that xg is null (input xg = -0.3
\* gives xg null and g_xg null).
C5_DerivedMetrics ==
    (result.done /\ call.fn = "transform_player_match_stats") =>
        /\ \A o \in result.df.rows :
              /\ o.goal_contributions = o.goals + o.assists
              /\ o.g_xg = (IF o.xg = NULL THEN NULL ELSE 10 * o.goals - o.xg)
        /\ \A i \in Reaching(call) :
              (LastOfKey(call, i) /\ call.df.rows[i].xg = -3)
                 => \E o \in result.df.rows :
                       /\ o.player_id = call.df.rows[i].player_id
                       /\ o.match_id = call.df.rows[i].match_id
                       /\ o.xg = NULL /\ o.g_xg = NULL

C5_Witness ==
    /\ result.done
    /\ call.fn = "transform_player_match_stats"
    /\ \E i \in Reaching(call) : LastOfKey(call, i) /\ call.df.rows[i].xg = -3
    /\ \E o \in result.df.rows : o.xg = 8 /\ o.g_xg = 10 * o.goals - 8

FilteringTransforms ==
    {"transform_players", "transform_player_match_stats", "transform_match_events"}

\* C23: in transform_players, transform_player_match_stats and
\* transform_match_events the orphan filter sees every input row before
\* deduplication: the keys of the output are exactly the keys that have a
\* non-orphaned occurrence, and the retained row of a key is its last
\* non-orphaned occurrence also when a later occurrence is orphaned.
C23_OrphanFilterBeforeDedup ==
    (result.done /\ call.fn \in FilteringTransforms /\ call.df.cols) =>
        /\ {KeyOf(call.fn, o) : o \in result.df.rows}
              = {KeyOf(call.fn, call.df.rows[i]) : i \in Reaching(call)}
        /\ \A i \in Reaching(call) :
              (\A j \in Reaching(call) :
                    KeyOf(call.fn, call.df.rows[j]) = KeyOf(call.fn, call.df.rows[i])
                        => j <= i)
                 => CleanedRow(call.fn, call.df.rows[i]) \in result.df.rows

C23_Witness ==
    /\ result.done
    /\ call.fn = "transform_match_events"
    /\ \E i, j \in DOMAIN call.df.rows :
          /\ i < j
          /\ call.df.rows[i].event_id = call.df.rows[j].event_id
          /\ FKsResolve(call, call.df.rows[i])
          /\ ~FKsResolve(call, call.df.rows[j])
          /\ call.df.rows[i] \in result.df.rows


\* ========================================================== the pipeline
\* main() of transformation.py: load_from_landing, transform_all,
\* save_data_to_db, run again and again on the same landing zone.
Entities == <<"teams", "players", "matches", "player_match_stats", "match_events">>

EntitySet == {Entities[i] : i \in DOMAIN Entities}

PipeTeamRows == [team_id : {"T1"}, name : {"n1"}]

PipePlayerRows == [player_id : {"P1"}, team_id : {"T1"}, position : {"gk"},
                   date_of_birth : {IsoDate(1990, 12, 24), JunkDate},
                   contract_until : {SlashDate(30, 6, 2027)}]

PipeMatchRows == [match_id : {"M1"}, home_team_id : TeamIds, away_team_id : {"T1"},
                  match_date : {IsoDate(2024, 1, 15)}]

PipeStatRows == [player_id : PlayerIds, match_id : {"M1"}, goals : {2},
                 assists : {1}, shots : {1}, xg : {8}]

PipeEventRows == [event_id : {"E1"}, match_id : {"M1"}, team_id : {"T1"},
                  player_id : {"P1"}, minute : {10}]

\* ingest_from_raw skips a CSV without rows, and load_from_landing turns a
\* missing or unreadable file into pl.LazyFrame(): a landing frame either has
\* no columns or has at least one row.
LandingFrames(S, n) ==
    {ZeroColsLazy} \cup {Frame(rs) : rs \in SeqsUpTo(S, n) \ {<<>>}}

Landings ==
    [teams : LandingFrames(PipeTeamRows, MaxLanding),
     players : LandingFrames(PipePlayerRows, MaxLanding),
     matches : LandingFrames(PipeMatchRows, MaxLanding),
     player_match_stats : LandingFrames(PipeStatRows, MaxLanding),
     match_events : LandingFrames(PipeEventRows, MaxLanding)]

load_from_landing(l) ==
    [teams |-> l.teams, players |-> l.players,
     player_match_stats |-> l.player_match_stats, matches |-> l.matches,
     match_events |-> l.match_events]

NoDict == [e \in {} |-> EmptyDataFrame]

Has(t, name) == name \in DOMAIN t

NonEmpty(t, name) == Cardinality(t[name].rows) > 0

\* A step of transform_all takes and returns [raised, transformed, trace]:
\* the dictionary built so far, the calls made so far, and whether an
\* exception has left the function.
Ran(st, name, fn, df, keys) ==
    [raised |-> FALSE,
     transformed |-> st.transformed @@ (name :> df),
     trace |-> Append(st.trace, [fn |-> fn, keys |-> keys])]

Raise(st) == [st EXCEPT !.raised = TRUE]

TeamsStep(ds, st) ==
    IF ds.teams.cols
    THEN Ran(st, "teams", "transform_teams", transform_teams(ds.teams), <<>>)
    ELSE st

\* ("players" in datasets) & (cols > 0) and ("teams" in transformed) &
\* (len(transformed["teams"]) > 0): the operands of & are both evaluated, so
\* transformed["teams"] is looked up even when "teams" is not a key.
PlayersStep(ds, st) ==
    IF st.raised THEN st
    ELSE IF ~ds.players.cols THEN st
    ELSE IF ~Has(st.transformed, "teams") THEN Raise(st)
    ELSE IF NonEmpty(st.transformed, "teams")
         THEN Ran(st, "players", "transform_players",
                  transform_players(ds.players,
                                    SelectKeys(st.transformed["teams"], "team_id")),
                  <<SelectKeys(st.transformed["teams"], "team_id")>>)
         ELSE st

MatchesStepFiltered(ds, st) ==
    IF st.raised THEN st
    ELSE IF ds.matches.cols
         THEN LET m == transform_matches(ds.matches)
                  tk == IF Has(st.transformed, "teams")
                        THEN SelectKeys(st.transformed["teams"], "team_id") ELSE {}
              IN Ran(st, "matches", "transform_matches",
                     [m EXCEPT !.rows = {r \in m.rows : r.home_team_id \in tk
                                                        /\ r.away_team_id \in tk}],
                     <<>>)
         ELSE st

MatchesStep(ds, st) ==
    IF st.raised THEN st
    ELSE IF ds.matches.cols
         THEN Ran(st, "matches", "transform_matches", transform_matches(ds.matches), <<>>)
         ELSE st

StatsStep(ds, st) ==
    IF st.raised THEN st
    ELSE IF /\ ds.player_match_stats.cols
            /\ Has(st.transformed, "players") /\ NonEmpty(st.transformed, "players")
            /\ Has(st.transformed, "matches") /\ NonEmpty(st.transformed, "matches")
         THEN LET pk == SelectKeys(st.transformed["players"], "player_id")
                  mk == SelectKeys(st.transformed["matches"], "match_id")
              IN Ran(st, "player_match_stats", "transform_player_match_stats",
                     transform_player_match_stats(ds.player_match_stats, pk, mk),
                     <<pk, mk>>)
         ELSE st

EventsStep(ds, st) ==
    IF st.raised THEN st
    ELSE IF /\ ds.match_events.cols
            /\ Has(st.transformed, "matches") /\ NonEmpty(st.transformed, "matches")
            /\ Has(st.transformed, "teams") /\ NonEmpty(st.transformed, "teams")
            /\ Has(st.transformed, "players") /\ NonEmpty(st.transformed, "players")
         THEN LET mk == SelectKeys(st.transformed["matches"], "match_id")
                  tk == SelectKeys(st.transformed["teams"], "team_id")
                  pk == SelectKeys(st.transformed["players"], "player_id")
              IN Ran(st, "match_events", "transform_match_events",
                     transform_match_events(ds.match_events, mk, tk, pk),
                     <<mk, tk, pk>>)
         ELSE st

transform_all(ds) ==
    EventsStep(ds, StatsStep(ds, MatchesStep(ds, PlayersStep(ds,
        TeamsStep(ds, [raised |-> FALSE, transformed |-> NoDict, trace |-> <<>>])))))


\* ------------------------------------------------------------ persistence
get_table_type(name) ==
    IF name \in {"teams", "players", "matches"} THEN "dim"
    ELSE IF name \in {"player_match_stats", "match_events"} THEN "fact"
    ELSE ""

\* get_table_type(name) + "_" + name
TableOf(name) == <<get_table_type(name), name>>

Tables == {TableOf(e) : e \in EntitySet}

NoTable == [exists |-> FALSE, rows |-> EmptyBag]

\* PRIMARY KEY of each table of table_queries
PrimaryKey(name, r) ==
    CASE name = "teams" -> r.team_id
      [] name = "players" -> r.player_id
      [] name = "matches" -> r.match_id
      [] name = "player_match_stats" -> <<r.player_id, r.match_id>>
      [] name = "match_events" -> r.event_id

\* the NOT NULL columns of table_queries that a cleaned row can leave null
NotNullOk(name, r) ==
    CASE name = "players" -> r.date_of_birth.form # "none" /\ r.age # NULL
      [] name = "matches" -> r.match_date.form # "none"
      [] OTHER -> TRUE

\* One dataset of the loop of save_data_to_db: CREATE TABLE and INSERT when
\* the table is missing, INSERT OR REPLACE when it exists. A statement that
\* violates a constraint changes nothing and raises.
WriteTableAppend(d, name, df) ==
    LET t == TableOf(name)
        ok == \A r \in df.rows : NotNullOk(name, r)
    IN IF d[t].exists
       THEN IF ok
            THEN [failed |-> FALSE,
                  db |-> [d EXCEPT ![t].rows = d[t].rows (+) SetToBag(df.rows)]]
            ELSE [failed |-> TRUE, db |-> d]
       ELSE IF ok
            THEN [failed |-> FALSE,
                  db |-> [d EXCEPT ![t] = [exists |-> TRUE, rows |-> SetToBag(df.rows)]]]
            ELSE [failed |-> TRUE,
                  db |-> [d EXCEPT ![t] = [exists |-> TRUE, rows |-> EmptyBag]]]

WriteTable(d, name, df) ==
    LET t == TableOf(name)
        ok == \A r \in df.rows : NotNullOk(name, r)
        newkeys == {PrimaryKey(name, r) : r \in df.rows}
        kept == {r \in DOMAIN d[t].rows : PrimaryKey(name, r) \notin newkeys}
    IN IF d[t].exists
       THEN IF ok
            THEN [failed |-> FALSE,
                  db |-> [d EXCEPT ![t].rows =
                             [r \in kept |-> d[t].rows[r]] (+) SetToBag(df.rows)]]
            ELSE [failed |-> TRUE, db |-> d]
       ELSE IF ok
            THEN [failed |-> FALSE,
                  db |-> [d EXCEPT ![t] = [exists |-> TRUE, rows |-> SetToBag(df.rows)]]]
            ELSE [failed |-> TRUE,
                  db |-> [d EXCEPT ![t] = [exists |-> TRUE, rows |-> EmptyBag]]]

\* datasets.items(): the keys in the order transform_all inserted them
RECURSIVE ItemsOrder(_, _)
ItemsOrder(names, t) ==
    IF names = <<>> THEN <<>>
    ELSE IF Head(names) \in DOMAIN t THEN <<Head(names)>> \o ItemsOrder(Tail(names), t)
    ELSE ItemsOrder(Tail(names), t)

RECURSIVE SaveLoopContinue(_, _, _)
SaveLoopContinue(names, d, t) ==
    IF names = <<>> THEN [raised |-> FALSE, db |-> d]
    ELSE IF t[Head(names)].rows = {} THEN SaveLoopContinue(Tail(names), d, t)
    ELSE SaveLoopContinue(Tail(names), WriteTable(d, Head(names), t[Head(names)]).db, t)

\* the for loop inside the try of save_data_to_db: an empty dataset is
\* skipped, the first failing write leaves the loop
RECURSIVE SaveLoop(_, _, _)
SaveLoop(names, d, t) ==
    IF names = <<>> THEN [raised |-> FALSE, db |-> d]
    ELSE IF t[Head(names)].rows = {} THEN SaveLoop(Tail(names), d, t)
    ELSE LET w == WriteTable(d, Head(names), t[Head(names)])
         IN IF w.failed THEN [raised |-> TRUE, db |-> w.db]
            ELSE SaveLoop(Tail(names), w.db, t)

\* connect, loop, then "All data saved", or log the error and re-raise;
\* the connection is closed in the finally clause either way
save_data_to_db(d, t) ==
    LET w == SaveLoop(ItemsOrder(Entities, t), d, t)
    IN [raised |-> w.raised,
        db |-> w.db,
        conn |-> "closed",
        log |-> {"Saving data to DuckDB"}
                \cup (IF w.raised THEN {"Error saving data to database"}
                                  ELSE {"All data saved"})]

\* ---------------------------------------------------------------- actions
NoDatasets ==
    [teams |-> ZeroColsLazy, players |-> ZeroColsLazy,
     player_match_stats |-> ZeroColsLazy, matches |-> ZeroColsLazy,
     match_events |-> ZeroColsLazy]

Init ==
    /\ landing \in Landings
    /\ datasets = NoDatasets
    /\ transformed = NoDict
    /\ trace = <<>>
    /\ db = [t \in Tables |-> NoTable]
    /\ pc = "start"
    /\ log = {}
    /\ conn = "closed"
    /\ runs = 0
    /\ TransformIdle /\ ValidationIdle /\ AnalysisIdle

\* main(): datasets = load_from_landing()
LoadFromLanding ==
    /\ pc \in {"start", "exited"}
    /\ runs < MaxRuns
    /\ datasets' = load_from_landing(landing)
    /\ transformed' = NoDict
    /\ trace' = <<>>
    /\ log' = {"Starting raw data transformation..."}
    /\ pc' = "loaded"
    /\ UNCHANGED <<landing, db, conn, runs, call, result, v_call, report,
                   a_db, agg>>

\* main(): transformed = transform_all(datasets); an exception goes to the
\* except clause of main, which logs it and ends the run
TransformAll ==
    /\ pc = "loaded"
    /\ LET st == transform_all(datasets)
       IN /\ trace' = st.trace
          /\ IF st.raised
             THEN /\ transformed' = NoDict
                  /\ log' = log \cup {"Transformation step failed"}
                  /\ pc' = "exited"
                  /\ runs' = runs + 1
             ELSE /\ transformed' = st.transformed
                  /\ log' = log
                  /\ pc' = "transformed"
                  /\ runs' = runs
    /\ UNCHANGED <<landing, datasets, db, conn, call, result, v_call, report,
                   a_db, agg>>

\* main(): save_data_to_db(transformed); an exception goes to the except
\* clause of main
SaveDataToDb ==
    /\ pc = "transformed"
    /\ LET w == save_data_to_db(db, transformed)
       IN /\ db' = w.db
          /\ conn' = w.conn
          /\ log' = log \cup w.log
                    \cup (IF w.raised THEN {"Transformation step failed"} ELSE {})
    /\ pc' = "exited"
    /\ runs' = runs + 1
    /\ UNCHANGED <<landing, datasets, transformed, trace, call, result, v_call,
                   report, a_db, agg>>

Next ==
    \/ LoadFromLanding
    \/ TransformAll
    \/ SaveDataToDb

Spec == Init /\ [][Next]_vars


\* --------------------------------------------------- pipeline properties
TransformOf ==
    <<"transform_teams", "transform_players", "transform_matches",
      "transform_player_match_stats", "transform_match_events">>

RanAt(fn) == {i \in DOMAIN trace : trace[i].fn = fn}

TeamKeysOut ==
    IF Has(transformed, "teams") THEN SelectKeys(transformed["teams"], "team_id") ELSE {}

\* C3 as stated: every match row in the output of transform_all has a
\* home_team_id and an away_team_id that are among the cleaned teams.
C3_MatchesReferenceCleanedTeams ==
    (pc = "transformed" /\ Has(transformed, "matches")) =>
        \A m \in transformed["matches"].rows :
            m.home_team_id \in TeamKeysOut /\ m.away_team_id \in TeamKeysOut

\* C3 amended: transform_all applies no referential filter to matches; every
\* match_id of a matches input with columns is in the output exactly once,
\* whether or not its home and away team are among the cleaned teams.
C3_MatchesOnlyDeduplicated ==
    (pc = "transformed" /\ datasets.matches.cols) =>
        /\ Has(transformed, "matches")
        /\ \A i \in DOMAIN datasets.matches.rows :
              Cardinality({m \in transformed["matches"].rows :
                             m.match_id = datasets.matches.rows[i].match_id}) = 1
        /\ \A m \in transformed["matches"].rows :
              \E i \in DOMAIN datasets.matches.rows :
                  m = NormalizeMatch(datasets.matches.rows[i])

C3_Witness ==
    /\ pc = "transformed"
    /\ Has(transformed, "teams") /\ NonEmpty(transformed, "teams")
    /\ Has(transformed, "matches")
    /\ \E m \in transformed["matches"].rows : m.home_team_id \notin TeamKeysOut

\* C6 as stated: once transform_all has been called, teams and matches were
\* transformed whenever their dataset has columns, a child transform ran
\* exactly when its dataset has columns and every parent produced at least
\* one row, it ran after its parents, and never with an empty key list.
C6_ChildrenGatedOnParents ==
    (pc \in {"transformed", "exited"}) =>
        /\ (RanAt("transform_teams") # {}) <=> datasets.teams.cols
        /\ (RanAt("transform_matches") # {}) <=> datasets.matches.cols
        /\ (RanAt("transform_players") # {}) <=>
              (datasets.players.cols /\ RanAt("transform_teams") # {})
        /\ (RanAt("transform_player_match_stats") # {}) <=>
              /\ datasets.player_match_stats.cols
              /\ Has(transformed, "players") /\ NonEmpty(transformed, "players")
              /\ Has(transformed, "matches")
        /\ (RanAt("transform_match_events") # {}) <=>
              /\ datasets.match_events.cols
              /\ Has(transformed, "players") /\ NonEmpty(transformed, "players")
              /\ Has(transformed, "matches") /\ Has(transformed, "teams")
        /\ \A i \in DOMAIN Entities :
              Has(transformed, Entities[i]) <=>
                 \E j \in DOMAIN trace : trace[j].fn = TransformOf[i]
        /\ \A i \in DOMAIN trace :
              /\ \A k \in DOMAIN trace[i].keys : trace[i].keys[k] # {}
              /\ trace[i].fn = "transform_players" =>
                    \E j \in RanAt("transform_teams") : j < i
              /\ trace[i].fn = "transform_player_match_stats" =>
                    /\ \E j \in RanAt("transform_players") : j < i
                    /\ \E j \in RanAt("transform_matches") : j < i
              /\ trace[i].fn = "transform_match_events" =>
                    /\ \E j \in RanAt("transform_players") : j < i
                    /\ \E j \in RanAt("transform_matches") : j < i
                    /\ \E j \in RanAt("transform_teams") : j < i

\* the persisted rows of one table, and whether a primary key is stored once
KeyStoredOnce(name) ==
    LET rows == db[TableOf(name)].rows
    IN \A r1, r2 \in DOMAIN rows :
          /\ rows[r1] = 1
          /\ PrimaryKey(name, r1) = PrimaryKey(name, r2) => r1 = r2

\* C8: a run of transform_all and save_data_to_db that follows a completed
\* run on the same landing data leaves every table as it was, and no table
\* ever holds two rows for one primary key.
C8_RerunIsIdempotent ==
    /\ [][(runs >= 1 /\ pc = "transformed") => db' = db]_vars
    /\ [](\A e \in EntitySet : KeyStoredOnce(e))

C8_Witness ==
    /\ runs = 2
    /\ pc = "exited"
    /\ "All data saved" \in log
    /\ \A e \in EntitySet : db[TableOf(e)].exists /\ db[TableOf(e)].rows # EmptyBag

AnyWriteFails ==
    \E name \in DOMAIN transformed :
        \E r \in transformed[name].rows : ~NotNullOk(name, r)

\* C9: when a write of save_data_to_db fails, main receives the exception,
\* "All data saved" is not logged for the run, and the connection is closed.
C9_WriteFailurePropagates ==
    (pc = "exited" /\ "Saving data to DuckDB" \in log /\ AnyWriteFails) =>
        /\ "Error saving data to database" \in log
        /\ "Transformation step failed" \in log
        /\ "All data saved" \notin log
        /\ conn = "closed"

C9_Witness ==
    /\ pc = "exited"
    /\ AnyWriteFails
    /\ "Error saving data to database" \in log
    /\ db[TableOf("teams")].rows # EmptyBag
    /\ db[TableOf("players")].exists /\ db[TableOf("players")].rows = EmptyBag

\* the run has gone through save_data_to_db
Saved == pc = "exited" /\ "Saving data to DuckDB" \in log

Stored(name, r) == BagIn(r, db[TableOf(name)].rows)

\* C25: the entities are persisted independently: when the write of one
\* entity's table fails inside save_data_to_db, the failure is caught and
\* logged and the remaining entities of the run are still persisted.
C25_RemainingEntitiesPersisted ==
    Saved =>
        \A name \in DOMAIN transformed :
            (\A r \in transformed[name].rows : NotNullOk(name, r)) =>
                \A r \in transformed[name].rows : Stored(name, r)

\* C26: a player row whose date_of_birth cannot be parsed is kept by
\* transform_players with date_of_birth null and age null, and
\* save_data_to_db stores it in dim_players without the run failing.
C26_UnparseableBirthDateIsStored ==
    (Saved /\ Has(transformed, "players")) =>
        \A i \in DOMAIN datasets.players.rows :
            parse_date(datasets.players.rows[i].date_of_birth).form = "none" =>
                \E r \in transformed["players"].rows :
                    /\ r.player_id = datasets.players.rows[i].player_id
                    /\ r.date_of_birth.form = "none"
                    /\ r.age = NULL
                    /\ Stored("players", r)
                    /\ "Transformation step failed" \notin log


\* ============================================================ validation
\* validate_<entity> of validation.py on a collected landing frame. A report
\* is the results dictionary; raised is TRUE when an exception other than
\* ValidationError left the function.
ValTeamRows == [team_id : TeamIds, name : {"n1", None}]

ValPlayerRows == [player_id : PlayerIds, team_id : TeamIds, position : {"gk"},
                  date_of_birth : {IsoDate(1990, 12, 24), NoDate},
                  market_value : {-5, 7},
                  contract_until : {SlashDate(30, 6, 2027)}]

ValMatchRows == [match_id : MatchIds, home_score : {1, -1},
                 match_date : {SlashDate(20, 1, 2024), JunkDate}]

\* A stats row on the limits of every rule (xg is kept in tenths): xg equal
\* to shots, two yellow cards, one red card.
ValStatBase ==
    [minutes_played |-> 90, goals |-> 1, shots |-> 1, shots_on_target |-> 0,
     passes_attempted |-> 10, passes_completed |-> 10, yellow_cards |-> 2,
     red_cards |-> 1, xg |-> 10]

ValStatPayloads ==
    {ValStatBase,
     [ValStatBase EXCEPT !.shots_on_target = 2],
     [ValStatBase EXCEPT !.passes_completed = 11],
     [ValStatBase EXCEPT !.xg = 15],
     [ValStatBase EXCEPT !.xg = -3],
     [ValStatBase EXCEPT !.goals = -1],
     [ValStatBase EXCEPT !.minutes_played = -1],
     [ValStatBase EXCEPT !.yellow_cards = 3],
     [ValStatBase EXCEPT !.red_cards = 2],
     [ValStatBase EXCEPT !.xg = -3, !.shots_on_target = 2]}

ValStatRow(p, m, v) ==
    [player_id |-> p, match_id |-> m, minutes_played |-> v.minutes_played,
     goals |-> v.goals, shots |-> v.shots, shots_on_target |-> v.shots_on_target,
     passes_attempted |-> v.passes_attempted,
     passes_completed |-> v.passes_completed, yellow_cards |-> v.yellow_cards,
     red_cards |-> v.red_cards, xg |-> v.xg]

ValStatRows ==
    {ValStatRow(p, m, v) : p \in PlayerIds, m \in MatchIds,
                           v \in {ValStatBase, [ValStatBase EXCEPT !.shots_on_target = 2]}}

ValStatRuleRows == {ValStatRow("P1", "M1", v) : v \in ValStatPayloads}

\* a row alone, before and after another row
RuleFrames(S, other) ==
    {Frame(<<r>>) : r \in S}
    \cup {Frame(<<r, other>>) : r \in S}
    \cup {Frame(<<other, r>>) : r \in S}

\* A tackle without any of the optional fields, on the limits of the ranges
ValEventBase ==
    [event_type |-> "tackle", minute |-> 0, second |-> 59, x_start |-> 0,
     y_start |-> 100, x_end |-> NULL, y_end |-> NULL, body_part |-> None,
     pass_type |-> None, recipient_id |-> None]

ValPassBase ==
    [ValEventBase EXCEPT !.event_type = "pass", !.x_end = 50, !.y_end = 50,
                         !.body_part = "foot", !.pass_type = "short",
                         !.recipient_id = "P1"]

ValEventPayloads ==
    {ValEventBase,
     ValPassBase,
     [ValPassBase EXCEPT !.x_end = NULL],
     [ValPassBase EXCEPT !.y_end = NULL],
     [ValPassBase EXCEPT !.pass_type = None],
     [ValPassBase EXCEPT !.recipient_id = None],
     [ValPassBase EXCEPT !.body_part = None],
     [ValEventBase EXCEPT !.event_type = "shot"],
     [ValEventBase EXCEPT !.event_type = "shot", !.body_part = "head"],
     [ValEventBase EXCEPT !.minute = -1],
     [ValEventBase EXCEPT !.second = 60],
     [ValEventBase EXCEPT !.x_start = 101],
     [ValEventBase EXCEPT !.x_end = -1]}

ValEventRow(e, m, t, v) ==
    [event_id |-> e, match_id |-> m, team_id |-> t, player_id |-> "P2",
     event_type |-> v.event_type, minute |-> v.minute, second |-> v.second,
     x_start |-> v.x_start, y_start |-> v.y_start, x_end |-> v.x_end,
     y_end |-> v.y_end, body_part |-> v.body_part, pass_type |-> v.pass_type,
     recipient_id |-> v.recipient_id]

ValEventRows ==
    {ValEventRow("E1", "M1", "T1", ValEventBase),
     ValEventRow("E2", "M1", "T1", ValEventBase),
     ValEventRow("E1", "M2", "T1", ValEventBase),
     ValEventRow("E1", "M1", "T2", ValEventBase)}

ValEventRuleRows == {ValEventRow("E1", "M1", "T1", v) : v \in ValEventPayloads}

Violation(type, loc) == [type |-> type, loc |-> loc]

\* datetime.strptime(value, "%Y-%m-%d") or (value, "%d/%m/%Y") succeeds
MatchesDateFormats(v) ==
    \/ v.form = "iso" /\ ValidYMD(v.a, v.b, v.c)
    \/ v.form = "slash" /\ ValidYMD(v.c, v.b, v.a)

\* The violations pydantic reports for a row: every failing field, or, when
\* all fields pass, the first failing model validator.
TeamViolations(r) ==
    IF r.name = None THEN <<Violation("string_type", "name")>> ELSE <<>>

PlayerViolations(r) ==
    (IF ~MatchesDateFormats(r.date_of_birth)
       THEN <<Violation("value_error", "date_of_birth")>> ELSE <<>>)
    \o (IF r.market_value # NULL /\ r.market_value < 0
          THEN <<Violation("value_error", "market_value")>> ELSE <<>>)
    \o (IF r.contract_until.form # "none" /\ ~MatchesDateFormats(r.contract_until)
          THEN <<Violation("value_error", "contract_until")>> ELSE <<>>)

\* validate_birth_date_format has no None guard: strptime(None, ...) raises
\* TypeError, which pydantic does not turn into a ValidationError
PlayerRaisesTypeError(r) == r.date_of_birth.form = "none"

MatchViolations(r) ==
    (IF ~MatchesDateFormats(r.match_date)
       THEN <<Violation("value_error", "match_date")>> ELSE <<>>)
    \o (IF r.home_score < 0
          THEN <<Violation("greater_than_equal", "home_score")>> ELSE <<>>)

\* Field(ge=0) on a counting field
CountingFields ==
    <<"minutes_played", "goals", "shots", "shots_on_target", "passes_attempted",
      "passes_completed", "yellow_cards", "red_cards">>

RECURSIVE GeZero(_, _, _)
GeZero(r, names, i) ==
    IF i > Len(names) THEN <<>>
    ELSE (IF r[names[i]] < 0 THEN <<Violation("greater_than_equal", names[i])>> ELSE <<>>)
         \o GeZero(r, names, i + 1)

StatFieldViolations(r) ==
    GeZero(r, CountingFields, 1)
    \o (IF r.yellow_cards > 2 THEN <<Violation("less_than_equal", "yellow_cards")>> ELSE <<>>)
    \o (IF r.red_cards > 1 THEN <<Violation("less_than_equal", "red_cards")>> ELSE <<>>)
    \o (IF r.xg = NULL THEN <<Violation("float_type", "xg")>>
        ELSE IF r.xg < 0 THEN <<Violation("greater_than_equal", "xg")>>
        ELSE <<>>)

StatViolationsNoPassRule(r) ==
    IF StatFieldViolations(r) # <<>> THEN StatFieldViolations(r)
    ELSE IF r.shots_on_target > r.shots THEN <<Violation("value_error", "")>>
    ELSE IF r.xg > 10 * r.shots THEN <<Violation("value_error", "")>>
    ELSE <<>>

StatViolations(r) ==
    IF StatFieldViolations(r) # <<>> THEN StatFieldViolations(r)
    ELSE IF r.shots_on_target > r.shots THEN <<Violation("value_error", "")>>
    ELSE IF r.passes_completed > r.passes_attempted THEN <<Violation("value_error", "")>>
    ELSE IF r.xg > 10 * r.shots THEN <<Violation("value_error", "")>>
    ELSE <<>>

\* Field(ge=0, le=100) on a coordinate; x_start and y_start are not Optional
Coordinate(r, name, optional) ==
    IF r[name] = NULL
    THEN (IF optional THEN <<>> ELSE <<Violation("float_type", name)>>)
    ELSE IF r[name] < 0 THEN <<Violation("greater_than_equal", name)>>
    ELSE IF r[name] > 100 THEN <<Violation("less_than_equal", name)>>
    ELSE <<>>

EventFieldViolations(r) ==
    (IF r.minute < 0 THEN <<Violation("greater_than_equal", "minute")>> ELSE <<>>)
    \o (IF r.second < 0 THEN <<Violation("greater_than_equal", "second")>>
        ELSE IF r.second > 59 THEN <<Violation("less_than_equal", "second")>>
        ELSE <<>>)
    \o Coordinate(r, "x_start", FALSE) \o Coordinate(r, "y_start", FALSE)
    \o Coordinate(r, "x_end", TRUE) \o Coordinate(r, "y_end", TRUE)

EventViolationsPassOnly(r) ==
    IF EventFieldViolations(r) # <<>> THEN EventFieldViolations(r)
    ELSE IF r.event_type = "pass" /\ (r.x_end = NULL \/ r.y_end = NULL)
         THEN <<Violation("value_error", "")>>
    ELSE IF r.event_type = "pass" /\ r.pass_type = None
         THEN <<Violation("value_error", "")>>
    ELSE IF r.event_type = "pass" /\ r.recipient_id = None
         THEN <<Violation("value_error", "")>>
    ELSE IF r.event_type = "pass" /\ r.body_part = None
         THEN <<Violation("value_error", "")>>
    ELSE <<>>

EventViolations(r) ==
    IF EventFieldViolations(r) # <<>> THEN EventFieldViolations(r)
    ELSE IF r.event_type = "pass" /\ (r.x_end = NULL \/ r.y_end = NULL)
         THEN <<Violation("value_error", "")>>
    ELSE IF r.event_type = "pass" /\ r.pass_type = None
         THEN <<Violation("value_error", "")>>
    ELSE IF r.event_type = "pass" /\ r.recipient_id = None
         THEN <<Violation("value_error", "")>>
    ELSE IF r.event_type \in {"pass", "shot"} /\ r.body_part = None
         THEN <<Violation("value_error", "")>>
    ELSE <<>>

Violations(fn, r) ==
    CASE fn = "validate_teams" -> TeamViolations(r)
      [] fn = "validate_players" -> PlayerViolations(r)
      [] fn = "validate_matches" -> MatchViolations(r)
      [] fn = "validate_player_match_stats" -> StatViolations(r)
      [] fn = "validate_match_events" -> EventViolations(r)

RaisesTypeError(fn, r) == fn = "validate_players" /\ PlayerRaisesTypeError(r)

ValKey(fn, r) ==
    CASE fn = "validate_teams" -> r.team_id
      [] fn = "validate_players" -> r.player_id
      [] fn = "validate_matches" -> r.match_id
      [] fn = "validate_player_match_stats" -> <<r.player_id, r.match_id>>
      [] fn = "validate_match_events" -> r.event_id

ErrorEntryOneBased(fn, i, r) ==
    [row |-> i + 1, key |-> ValKey(fn, r),
     errors |-> [typed |-> fn # "validate_match_events", list |-> Violations(fn, r)]]

\* errors.append({"row": i, <key columns>, "errors": e.errors()}); for
\* match_events the entry holds str(e) instead of the list
ErrorEntry(fn, i, r) ==
    [row |-> i, key |-> ValKey(fn, r),
     errors |-> [typed |-> fn # "validate_match_events", list |-> Violations(fn, r)]]

NewResults(n) ==
    [raised |-> FALSE, total_rows |-> n, valid_rows |-> 0, invalid_rows |-> 0,
     errors |-> <<>>, warnings |-> <<>>]

\* for i, row in enumerate(df.to_dicts()): try Model(**row) ... except
RECURSIVE ValidateRowsOrphansInvalid(_, _, _, _, _)
ValidateRowsOrphansInvalid(fn, rows, i, res, orphan) ==
    IF i > Len(rows) THEN res
    ELSE IF RaisesTypeError(fn, rows[i]) THEN [res EXCEPT !.raised = TRUE]
    ELSE IF Violations(fn, rows[i]) = <<>> /\ i \notin orphan
         THEN ValidateRowsOrphansInvalid(fn, rows, i + 1,
                  [res EXCEPT !.valid_rows = @ + 1], orphan)
         ELSE ValidateRowsOrphansInvalid(fn, rows, i + 1,
                  [res EXCEPT !.invalid_rows = @ + 1,
                              !.errors = Append(@, ErrorEntry(fn, i - 1, rows[i]))],
                  orphan)

RECURSIVE ValidateRows(_, _, _, _, _)
ValidateRows(fn, rows, i, res, orphan) ==
    IF i > Len(rows) THEN res
    ELSE IF RaisesTypeError(fn, rows[i]) THEN [res EXCEPT !.raised = TRUE]
    ELSE IF Violations(fn, rows[i]) = <<>>
         THEN ValidateRows(fn, rows, i + 1, [res EXCEPT !.valid_rows = @ + 1], orphan)
         ELSE ValidateRows(fn, rows, i + 1,
                  [res EXCEPT !.invalid_rows = @ + 1,
                              !.errors = Append(@, ErrorEntry(fn, i - 1, rows[i]))],
                  orphan)

Warning(kind, n, values) == [kind |-> kind, n |-> n, values |-> values]

\* df.filter(pl.col(c).is_in(list).not_()): the positions of the orphans
OrphanIdx(rows, col, list) == {i \in DOMAIN rows : rows[i][col] \notin list}

RECURSIVE ValuesAt(_, _, _)
ValuesAt(vals, idx, i) ==
    IF i > Len(vals) THEN <<>>
    ELSE (IF i \in idx THEN <<vals[i]>> ELSE <<>>) \o ValuesAt(vals, idx, i + 1)

OrphanWarning(kind, rows, col, list) ==
    LET idx == OrphanIdx(rows, col, list)
    IN IF idx # {} THEN <<Warning(kind, Cardinality(idx), ValuesAt([i \in DOMAIN rows |-> rows[i][col]], idx, 1))>>
       ELSE <<>>

\* group_by(key).agg(count).filter(count > 1)
DuplicateWarning(fn, rows) ==
    LET dup == {k \in {ValKey(fn, rows[i]) : i \in DOMAIN rows} :
                  Cardinality({i \in DOMAIN rows : ValKey(fn, rows[i]) = k}) > 1}
    IN IF dup # {} THEN <<Warning("duplicate ids", Cardinality(dup), dup)>> ELSE <<>>


\* the dataset-level checks, in the order the function appends them
DatasetWarnings(c) ==
    LET rows == c.df.rows
    IN CASE c.fn = "validate_teams" -> DuplicateWarning(c.fn, rows)
         [] c.fn = "validate_players" ->
               OrphanWarning("orphaned team ids", rows, "team_id", c.team_id_list)
               \o DuplicateWarning(c.fn, rows)
               \o <<Warning("position labels",
                            Cardinality({rows[i].position : i \in DOMAIN rows}),
                            {rows[i].position : i \in DOMAIN rows})>>
         [] c.fn = "validate_matches" -> DuplicateWarning(c.fn, rows)
         [] c.fn = "validate_player_match_stats" ->
               OrphanWarning("orphaned player ids", rows, "player_id", c.player_id_list)
               \o OrphanWarning("orphaned match ids", rows, "match_id", c.match_id_list)
               \o DuplicateWarning(c.fn, rows)
         [] c.fn = "validate_match_events" ->
               OrphanWarning("orphaned match ids", rows, "match_id", c.match_id_list)
               \o OrphanWarning("orphaned team ids", rows, "team_id", c.team_id_list)
               \o OrphanWarning("orphaned player ids", rows, "player_id", c.player_id_list)
               \o DuplicateWarning(c.fn, rows)

\* the positions of the rows with a foreign key outside its parent key list
OrphanRows(c) ==
    LET rows == c.df.rows
    IN CASE c.fn = "validate_players" -> OrphanIdx(rows, "team_id", c.team_id_list)
         [] c.fn = "validate_player_match_stats" ->
               OrphanIdx(rows, "player_id", c.player_id_list)
               \cup OrphanIdx(rows, "match_id", c.match_id_list)
         [] c.fn = "validate_match_events" ->
               OrphanIdx(rows, "match_id", c.match_id_list)
               \cup OrphanIdx(rows, "team_id", c.team_id_list)
               \cup OrphanIdx(rows, "player_id", c.player_id_list)
         [] OTHER -> {}

Validate(c) ==
    LET res == NewResults(Len(c.df.rows))
    IN IF c.df.rows = <<>>
       THEN [res EXCEPT !.warnings = <<Warning("empty", 0, {})>>]
       ELSE ValidateRows(c.fn, c.df.rows, 1,
                         [res EXCEPT !.warnings = DatasetWarnings(c)], OrphanRows(c))

ValCalls ==
    {Call("validate_teams", d, {}, {}, {}) : d \in LazyFrames(ValTeamRows, MaxValRows)}
    \cup {Call("validate_players", d, tl, {}, {}) :
            d \in LazyFrames(ValPlayerRows, MaxValRows), tl \in TeamKeyLists}
    \cup {Call("validate_matches", d, {}, {}, {}) :
            d \in LazyFrames(ValMatchRows, MaxValRows)}
    \cup {Call("validate_player_match_stats", d, {}, pl, ml) :
            d \in LazyFrames(ValStatRows, MaxValRows)
                    \cup RuleFrames(ValStatRuleRows, ValStatRow("P2", "M1", ValStatBase)),
            pl \in PlayerKeyLists, ml \in MatchKeyLists}
    \cup {Call("validate_match_events", d, tl, pl, ml) :
            d \in LazyFrames(ValEventRows, MaxValRows)
                    \cup RuleFrames(ValEventRuleRows,
                                    ValEventRow("E1", "M1", "T1", ValEventBase)),
            tl \in TeamKeyLists, pl \in PlayerKeyLists, ml \in MatchKeyLists}

NoReport == [done |-> FALSE, results |-> NewResults(0), file |-> "none"]

InitValidation ==
    /\ v_call \in ValCalls
    /\ report = NoReport
    /\ call = <<>> /\ result = Pending
    /\ PipelineIdle /\ AnalysisIdle

Validates(fn) ==
    /\ v_call.fn = fn
    /\ ~report.done
    /\ report' = [done |-> TRUE, results |-> Validate(v_call), file |-> "none"]
    /\ UNCHANGED <<v_call, call, result, landing, datasets, transformed, trace,
                   db, pc, log, conn, runs, a_db, agg>>

ValidateTeams == Validates("validate_teams")

ValidatePlayers == Validates("validate_players")

ValidateMatches == Validates("validate_matches")

ValidatePlayerMatchStats == Validates("validate_player_match_stats")

ValidateMatchEvents == Validates("validate_match_events")

\* error.get('errors')[0]['type'] of create_validation_report: indexing the
\* first violation of an entry by name works on a list of dicts and raises
\* TypeError on a string
Renders(entry) == entry.errors.typed /\ entry.errors.list # <<>>

\* create_validation_report on the results of the validated dataset (the
\* datasets without results are read as {}): the report file is written
\* unless rendering an errors entry raises
CreateValidationReport ==
    /\ report.done
    /\ ~report.results.raised
    /\ report.file = "none"
    /\ report' = [report EXCEPT !.file =
                     IF \A i \in DOMAIN report.results.errors :
                            Renders(report.results.errors[i])
                     THEN "written" ELSE "raised"]
    /\ UNCHANGED <<v_call, call, result, landing, datasets, transformed, trace,
                   db, pc, log, conn, runs, a_db, agg>>

NextValidation ==
    \/ CreateValidationReport
    \/ ValidateTeams
    \/ ValidatePlayers
    \/ ValidateMatches
    \/ ValidatePlayerMatchStats
    \/ ValidateMatchEvents

SpecValidation == InitValidation /\ [][NextValidation]_vars


\* ---- the same rows with every key made distinct and every parent present
Rekeyed(fn, r, i) ==
    CASE fn = "validate_teams" -> [r EXCEPT !.team_id = ToString(i)]
      [] fn = "validate_players" -> [r EXCEPT !.player_id = ToString(i)]
      [] fn = "validate_matches" -> [r EXCEPT !.match_id = ToString(i)]
      [] fn = "validate_player_match_stats" -> [r EXCEPT !.player_id = ToString(i)]
      [] fn = "validate_match_events" -> [r EXCEPT !.event_id = ToString(i)]

WithoutDuplicatesAndOrphans(c) ==
    LET rows == [i \in DOMAIN c.df.rows |-> Rekeyed(c.fn, c.df.rows[i], i)]
    IN [fn |-> c.fn,
        df |-> [cols |-> c.df.cols, rows |-> rows],
        team_id_list |-> TeamIds,
        player_id_list |-> PlayerIds \cup {ToString(i) : i \in DOMAIN rows},
        match_id_list |-> MatchIds]

HasDuplicates(c) ==
    \E i, j \in DOMAIN c.df.rows :
        i # j /\ ValKey(c.fn, c.df.rows[i]) = ValKey(c.fn, c.df.rows[j])

Counted(res) == [i \in DOMAIN res.errors |-> <<res.errors[i].row, res.errors[i].errors>>]

WarningKinds(res) == {res.warnings[i].kind : i \in DOMAIN res.warnings}

OrphanKinds == {"orphaned team ids", "orphaned player ids", "orphaned match ids"}

\* C10: in every validate_<entity> function duplicate keys and orphaned
\* foreign keys only add warnings: valid_rows, invalid_rows and the errors
\* are those of the same rows with distinct keys and all parents present,
\* and every row counted invalid violates a rule of its schema.
C10_DuplicatesAndOrphansOnlyWarn ==
    (report.done /\ ~report.results.raised) =>
        LET res == report.results
            base == Validate(WithoutDuplicatesAndOrphans(v_call))
        IN /\ res.valid_rows = base.valid_rows
           /\ res.invalid_rows = base.invalid_rows
           /\ Counted(res) = Counted(base)
           /\ \A i \in DOMAIN res.errors :
                 Violations(v_call.fn, v_call.df.rows[res.errors[i].row + 1]) # <<>>
           /\ HasDuplicates(v_call) <=> "duplicate ids" \in WarningKinds(res)
           /\ (OrphanRows(v_call) # {}) <=> (WarningKinds(res) \cap OrphanKinds # {})
           /\ WarningKinds(base) \cap (OrphanKinds \cup {"duplicate ids"}) = {}

C10_Witness ==
    /\ report.done
    /\ ~report.results.raised
    /\ v_call.fn = "validate_players"
    /\ HasDuplicates(v_call)
    /\ OrphanRows(v_call) # {}
    /\ \E i \in OrphanRows(v_call) : Violations(v_call.fn, v_call.df.rows[i]) = <<>>
    /\ report.results.valid_rows = 1
    /\ report.results.invalid_rows = 1


\* ---- the business rules of a player_match_stats row
BreaksStatRule(r) ==
    \/ r.shots_on_target > r.shots
    \/ r.passes_completed > r.passes_attempted
    \/ r.xg > 10 * r.shots
    \/ r.xg < 0
    \/ \E i \in DOMAIN CountingFields : r[CountingFields[i]] < 0
    \/ r.yellow_cards > 2
    \/ r.red_cards > 1

ErrorsOfRow(res, i) == {k \in DOMAIN res.errors : res.errors[k].row = i - 1}

\* C11: validate_player_match_stats, on rows whose fields are all present,
\* counts a row invalid exactly when it breaks one of the business rules
\* (shots_on_target > shots, passes_completed > passes_attempted,
\* xg > shots, xg < 0, a negative counting field, yellow_cards > 2,
\* red_cards > 1); each invalid row adds exactly one errors entry with its
\* row index, player_id and match_id, every other row is counted valid and
\* the rows after an invalid row are still validated.
C11_StatsRulesCountInvalid ==
    (report.done /\ v_call.fn = "validate_player_match_stats") =>
        LET res == report.results
            rows == v_call.df.rows
            bad == {i \in DOMAIN rows : BreaksStatRule(rows[i])}
        IN /\ ~res.raised
           /\ res.invalid_rows = Cardinality(bad)
           /\ res.valid_rows = Len(rows) - Cardinality(bad)
           /\ Len(res.errors) = Cardinality(bad)
           /\ \A i \in DOMAIN rows :
                 IF i \in bad
                 THEN /\ Cardinality(ErrorsOfRow(res, i)) = 1
                      /\ \A k \in ErrorsOfRow(res, i) :
                            res.errors[k].key = <<rows[i].player_id, rows[i].match_id>>
                 ELSE ErrorsOfRow(res, i) = {}

C11_Witness ==
    /\ report.done
    /\ v_call.fn = "validate_player_match_stats"
    /\ Len(v_call.df.rows) = 2
    /\ v_call.df.rows[1].passes_completed > v_call.df.rows[1].passes_attempted
    /\ ~BreaksStatRule(v_call.df.rows[2])
    /\ report.results.invalid_rows = 1
    /\ report.results.valid_rows = 1


\* ---- the business rules of a match_events row
Coordinates == {"x_start", "y_start", "x_end", "y_end"}

BreaksEventRule(r) ==
    \/ r.event_type = "pass"
          /\ (r.x_end = NULL \/ r.y_end = NULL \/ r.pass_type = None
                \/ r.recipient_id = None)
    \/ r.event_type \in {"pass", "shot"} /\ r.body_part = None
    \/ r.minute < 0
    \/ r.second < 0 \/ r.second > 59
    \/ \E c \in Coordinates : r[c] # NULL /\ (r[c] < 0 \/ r[c] > 100)

\* C12: validate_match_events counts a row invalid whenever it is a pass
\* without x_end, y_end, pass_type or recipient_id, a pass or shot without
\* body_part, has minute < 0, second outside 0..59 or a present coordinate
\* outside [0,100]; a row breaking none of these rules (so a row of another
\* event type with the optional fields missing and values in range) is
\* counted valid.
C12_EventRulesCountInvalid ==
    (report.done /\ v_call.fn = "validate_match_events") =>
        LET res == report.results
            rows == v_call.df.rows
            bad == {i \in DOMAIN rows : BreaksEventRule(rows[i])}
        IN /\ ~res.raised
           /\ res.invalid_rows = Cardinality(bad)
           /\ res.valid_rows = Len(rows) - Cardinality(bad)
           /\ \A i \in DOMAIN rows : (i \in bad) <=> (ErrorsOfRow(res, i) # {})

C12_Witness ==
    /\ report.done
    /\ v_call.fn = "validate_match_events"
    /\ Len(v_call.df.rows) = 2
    /\ v_call.df.rows[1].event_type = "shot"
    /\ v_call.df.rows[1].body_part = None
    /\ v_call.df.rows[2] = ValEventRow("E1", "M1", "T1", ValEventBase)
    /\ report.results.invalid_rows = 1
    /\ report.results.valid_rows = 1


\* C13: every entry of a report's errors list, for every entity including
\* match_events, holds the row index, the row's key and a typed list of
\* violations rather than free text, and create_validation_report renders
\* every errors entry without failing.
C13_ErrorsAreStructured ==
    report.done =>
        /\ \A i \in DOMAIN report.results.errors : report.results.errors[i].errors.typed
        /\ report.file # "raised"


\* C28: for every validate_<entity> call that returns, valid_rows +
\* invalid_rows = total_rows when the dataset has rows, the errors list has
\* exactly invalid_rows entries whose row indices are distinct and lie in
\* 0..total_rows-1, and on an empty dataset the three counts are 0 and the
\* only warning is 'dataset is empty'.
C28_CountsAddUp ==
    (report.done /\ ~report.results.raised) =>
        LET res == report.results
            n == Len(v_call.df.rows)
        IN /\ res.total_rows = n
           /\ n > 0 => res.valid_rows + res.invalid_rows = n
           /\ Len(res.errors) = res.invalid_rows
           /\ \A i \in DOMAIN res.errors : res.errors[i].row \in 0..(n - 1)
           /\ \A i, j \in DOMAIN res.errors :
                 i # j => res.errors[i].row # res.errors[j].row
           /\ n = 0 => /\ res.valid_rows = 0
                       /\ res.invalid_rows = 0
                       /\ res.warnings = <<Warning("empty", 0, {})>>

C28_Witness ==
    /\ report.done
    /\ ~report.results.raised
    /\ v_call.fn = "validate_match_events"
    /\ Len(v_call.df.rows) = 2
    /\ report.results.valid_rows = 1
    /\ Len(report.results.errors) = 1
    /\ report.results.errors[1].row = 1


\* ============================================================== analysis
\* create_player_aggregated_view of analysis.py ("polars") and
\* agg_players_query of db_utils.py ("sql") over the persisted tables.
\* Ratios and per-90 rates are kept in hundredths (they are rounded to two
\* decimals); INF and NAN are the float results of a division by zero.
INF == -98

NAN == -97

StatPayloads ==
    {[minutes_played |-> 0, goals |-> 1, assists |-> 0, shots |-> 0,
      shots_on_target |-> 0, passes_attempted |-> 0, passes_completed |-> 0,
      duels_won |-> 0, duels_lost |-> 0, xg |-> NULL, goal_contribution |-> 1],
     [minutes_played |-> 0, goals |-> 0, assists |-> 1, shots |-> 2,
      shots_on_target |-> 1, passes_attempted |-> 10, passes_completed |-> 5,
      duels_won |-> 1, duels_lost |-> 0, xg |-> 5, goal_contribution |-> 1],
     [minutes_played |-> 90, goals |-> 1, assists |-> 1, shots |-> 2,
      shots_on_target |-> 1, passes_attempted |-> 10, passes_completed |-> 5,
      duels_won |-> 1, duels_lost |-> 1, xg |-> 5, goal_contribution |-> 2],
     [minutes_played |-> 45, goals |-> 0, assists |-> 0, shots |-> 0,
      shots_on_target |-> 0, passes_attempted |-> 0, passes_completed |-> 0,
      duels_won |-> 0, duels_lost |-> 0, xg |-> NULL, goal_contribution |-> 0]}

FactRows == [player_id : PlayerIds, match_id : MatchIds, v : StatPayloads]

DimPlayerRows == [player_id : PlayerIds, team_id : TeamIds]

\* the tables hold one row per primary key
UniqueBy(S, subset) ==
    \A r1, r2 \in S : KeyValues(r1, subset) = KeyValues(r2, subset) => r1 = r2

\* dim_teams, by team_id
DimTeams == {{"T1"}, TeamIds}

AnalysisDbs ==
    [teams : DimTeams,
     players : {S \in SUBSET DimPlayerRows : UniqueBy(S, PlayerKey)},
     stats : {S \in {{rs[i] : i \in DOMAIN rs} : rs \in SeqsUpTo(FactRows, MaxStatRows)} :
                UniqueBy(S, StatKey)}]

RECURSIVE SumFn(_)
SumFn(f) ==
    IF DOMAIN f = {} THEN 0
    ELSE LET x == CHOOSE x \in DOMAIN f : TRUE
         IN f[x] + SumFn([y \in DOMAIN f \ {x} |-> f[y]])

\* pl.sum(col) inside group_by().agg(): nulls are skipped, no value gives 0
PolarsSum(f) == SumFn([x \in {x \in DOMAIN f : f[x] # NULL} |-> f[x]])

\* SUM(col): nulls are skipped, no value gives NULL
SqlSum(f) == IF \A x \in DOMAIN f : f[x] = NULL THEN NULL ELSE PolarsSum(f)

\* round(n / d * 100) for n >= 0, d > 0
RoundDiv(n, d) == (2 * n + d) \div (2 * d)

\* float division as evaluated on a whole column: x / 0 is inf, 0 / 0 nan
FloatRatio(n, d, scale) ==
    IF n = NULL \/ d = NULL THEN NULL
    ELSE IF d = 0 THEN (IF n = 0 THEN NAN ELSE INF)
    ELSE RoundDiv(scale * n, d)

\* pl.when(den > 0).then(num / den * k).otherwise(None).round(2): the then
\* column is computed for every row and masked by the condition
PolarsUnguarded(n, d, scale) == FloatRatio(n, d, scale)

PolarsGuarded(n, d, scale) ==
    LET then == FloatRatio(n, d, scale)
    IN IF d # NULL /\ d > 0 THEN then ELSE NULL

\* ROUND(CASE WHEN den > 0 THEN num / den * k ELSE NULL END, 2)
SqlGuarded(n, d, scale) ==
    IF d # NULL /\ d > 0 THEN FloatRatio(n, d, scale) ELSE NULL

Col(S, name) == [r \in S |-> r.v[name]]

AggRow(p, S, query_type) ==
    LET Sum(f) == IF query_type = "polars" THEN PolarsSum(f) ELSE SqlSum(f)
        Guarded(n, d, scale) == IF query_type = "polars" THEN PolarsGuarded(n, d, scale)
                                ELSE SqlGuarded(n, d, scale)
        minutes == Sum(Col(S, "minutes_played"))
        goals == Sum(Col(S, "goals"))
        shots == Sum(Col(S, "shots"))
        sot == Sum(Col(S, "shots_on_target"))
        pa == Sum(Col(S, "passes_attempted"))
        pcm == Sum(Col(S, "passes_completed"))
        dw == Sum(Col(S, "duels_won"))
        dl == Sum(Col(S, "duels_lost"))
        xg == Sum(Col(S, "xg"))
        gc == Sum(Col(S, "goal_contribution"))
    IN [player_id |-> p.player_id, team_id |-> p.team_id, has_stats |-> TRUE,
        minutes_played |-> minutes, goals |-> goals, shots |-> shots,
        shots_on_target |-> sot, passes_attempted |-> pa,
        passes_completed |-> pcm, duels_won |-> dw, duels_lost |-> dl,
        xg |-> xg, goal_contribution |-> gc,
        goals_90 |-> Guarded(goals, minutes, 9000),
        xg_90 |-> Guarded(xg, minutes, 900),
        goal_contribution_90 |-> Guarded(gc, minutes, 9000),
        shot_accuracy |-> Guarded(sot, shots, 100),
        pass_accuracy |-> Guarded(pcm, pa, 100),
        duel_win_rate |-> Guarded(dw, dw + dl, 100)]

\* a player without any stats row: the left join leaves every column null
NullAggRow(p) ==
    [player_id |-> p.player_id, team_id |-> p.team_id, has_stats |-> FALSE,
     minutes_played |-> NULL, goals |-> NULL, shots |-> NULL,
     shots_on_target |-> NULL, passes_attempted |-> NULL,
     passes_completed |-> NULL, duels_won |-> NULL, duels_lost |-> NULL,
     xg |-> NULL, goal_contribution |-> NULL, goals_90 |-> NULL, xg_90 |-> NULL,
     goal_contribution_90 |-> NULL, shot_accuracy |-> NULL,
     pass_accuracy |-> NULL, duel_win_rate |-> NULL]

StatsOf(d, p) == {r \in d.stats : r.player_id = p.player_id}

\* players LEFT JOIN aggregated stats, one row per player of dim_players
create_player_aggregated_view(d, query_type) ==
    {IF StatsOf(d, p) = {} THEN NullAggRow(p)
     ELSE AggRow(p, StatsOf(d, p), query_type) : p \in d.players}

NoAgg == [done |-> FALSE, query_type |-> "", rows |-> {}]

InitAnalysis ==
    /\ a_db \in AnalysisDbs
    /\ agg = NoAgg
    /\ call = <<>>
    /\ result = NoValue
    /\ PipelineIdle /\ ValidationIdle

CreateView(query_type) ==
    /\ ~agg.done
    /\ agg' = [done |-> TRUE, query_type |-> query_type,
               rows |-> create_player_aggregated_view(a_db, query_type)]
    /\ UNCHANGED <<a_db, call, result, landing, datasets, transformed, trace, db,
                   pc, log, conn, runs, v_call, report>>

CreatePlayerAggregatedViewPolars == CreateView("polars")

CreatePlayerAggregatedViewSql == CreateView("sql")

AggCol(S, name) == [r \in S |-> r[name]]

\* mean() / AVG(): nulls are skipped, no value gives null; in hundredths,
\* rounded to two decimals
Mean(f) ==
    LET values == {x \in DOMAIN f : f[x] # NULL}
    IN IF values = {} THEN NULL
       ELSE RoundDiv(PolarsSum(f), Cardinality(values))

\* one group of the team summary: counting stats summed, ratio columns
\* averaged over the players of the team
SummaryRow(query_type, t, S) ==
    LET Sum(f) == IF query_type = "polars" THEN PolarsSum(f) ELSE SqlSum(f)
    IN [team_name |-> t,
        total_goals |-> Sum(AggCol(S, "goals")),
        total_shots |-> Sum(AggCol(S, "shots")),
        total_shots_on_target |-> Sum(AggCol(S, "shots_on_target")),
        total_passes_attempted |-> Sum(AggCol(S, "passes_attempted")),
        total_passes_completed |-> Sum(AggCol(S, "passes_completed")),
        total_duels_won |-> Sum(AggCol(S, "duels_won")),
        total_duels_lost |-> Sum(AggCol(S, "duels_lost")),
        total_xg |-> Sum(AggCol(S, "xg")),
        avg_shot_accuracy |-> Mean(AggCol(S, "shot_accuracy")),
        avg_pass_accuracy |-> Mean(AggCol(S, "pass_accuracy")),
        avg_duel_win_rate |-> Mean(AggCol(S, "duel_win_rate"))]

\* the aggregated players INNER JOIN dim_teams, grouped by team; the optional
\* team_id keeps the group of that team (polars: filter after the group_by
\* and drop of the team_id column, sql: WHERE a.team_id = ...; the sql
\* variant never selects team_id)
get_team_summary(query_type, rows, teams, team_id) ==
    LET joined == {r \in rows : r.team_id \in teams}
        groups == {t \in {r.team_id : r \in joined} : team_id = None \/ t = team_id}
    IN [team_id |-> team_id,
        has_team_id |-> (query_type = "polars" /\ team_id = None),
        rows |-> {SummaryRow(query_type, t, {r \in joined : r.team_id = t}) :
                    t \in groups}]

GetTeamSummary(query_type) ==
    /\ agg.done
    /\ agg.query_type = query_type
    /\ ~result.done
    /\ \E team_id \in {None} \cup TeamIds :
          result' = [done |-> TRUE,
                     value |-> get_team_summary(query_type, agg.rows, a_db.teams, team_id)]
    /\ UNCHANGED <<a_db, agg, call, landing, datasets, transformed, trace, db,
                   pc, log, conn, runs, v_call, report>>

GetTeamSummaryPolars == GetTeamSummary("polars")

GetTeamSummarySql == GetTeamSummary("sql")

NextAnalysis ==
    \/ CreatePlayerAggregatedViewPolars
    \/ CreatePlayerAggregatedViewSql
    \/ GetTeamSummaryPolars
    \/ GetTeamSummarySql

SpecAnalysis == InitAnalysis /\ [][NextAnalysis]_vars

Per90Columns == {"goals_90", "xg_90", "goal_contribution_90"}

OtherVariant(query_type) == IF query_type = "polars" THEN "sql" ELSE "polars"

TeamPlayers(t) == {r \in agg.rows : r.team_id = t}

Totals ==
    {<<"total_goals", "goals">>, <<"total_shots", "shots">>,
     <<"total_shots_on_target", "shots_on_target">>,
     <<"total_passes_attempted", "passes_attempted">>,
     <<"total_passes_completed", "passes_completed">>,
     <<"total_duels_won", "duels_won">>, <<"total_duels_lost", "duels_lost">>,
     <<"total_xg", "xg">>}

Averages ==
    {<<"avg_shot_accuracy", "shot_accuracy">>,
     <<"avg_pass_accuracy", "pass_accuracy">>,
     <<"avg_duel_win_rate", "duel_win_rate">>}

\* C18: in both variants of get_team_summary each avg_* ratio column is the
\* simple mean over the players of the team of the per-player ratio and each
\* total_* column is the sum of the players' counting stat (null at most
\* when no player of the team has a value), and the two variants return the
\* same values for the same persisted data.
C18_SummaryVariantsAgree ==
    result.done =>
        /\ \A row \in result.value.rows :
              /\ \A c \in Averages :
                    row[c[1]] = Mean(AggCol(TeamPlayers(row.team_name), c[2]))
              /\ \A c \in Totals :
                    \/ row[c[1]] = PolarsSum(AggCol(TeamPlayers(row.team_name), c[2]))
                    \/ /\ row[c[1]] = NULL
                       /\ \A r \in TeamPlayers(row.team_name) : r[c[2]] = NULL
        /\ result.value.rows =
              get_team_summary(OtherVariant(agg.query_type),
                               create_player_aggregated_view(a_db, OtherVariant(agg.query_type)),
                               a_db.teams, result.value.team_id).rows


\* C19: with a team_id filter the outputs of the aggregator are narrowed to
\* that team: the player aggregate holds only players of the team, and the
\* filtered team summary is the unfiltered team summary restricted to the
\* rows of the team.
C19_TeamFilterNarrowsAllOutputs ==
    (result.done /\ result.value.team_id # None) =>
        /\ \A r \in agg.rows : r.team_id = result.value.team_id
        /\ result.value.rows =
              {row \in get_team_summary(agg.query_type, agg.rows, a_db.teams, None).rows :
                  row.team_name = result.value.team_id}


\* ========================================================= get_team_top3
\* get_team_top3 of analysis.py ("polars") and teams_top3_query of
\* db_utils.py ("sql") over the aggregated player table. The table is a
\* sequence in arrival order (it is written ORDER BY player_id); row i is
\* player i.
AggInputRows ==
    {[team_id |-> "T1", goal_contribution |-> g] : g \in {NULL, 8, 10}}
    \cup {[team_id |-> "T2", goal_contribution |-> 10]}

AggTables == SeqsUpTo(AggInputRows, MaxPlayers)

Top3Calls ==
    [fn : {"get_team_top3"}, query_type : {"polars", "sql"},
     team_id : {None, "T1"}, table : AggTables]

SameTeam(t, i, j) == t[i].team_id = t[j].team_id

\* rank("ordinal", descending=True).over("team_id"): a null value has a null
\* rank, equal values are ranked in the order they occur
PolarsRanking(t) ==
    [i \in DOMAIN t |->
        IF t[i].goal_contribution = NULL THEN NULL
        ELSE 1 + Cardinality({j \in DOMAIN t :
                   /\ SameTeam(t, i, j)
                   /\ t[j].goal_contribution # NULL
                   /\ \/ t[j].goal_contribution > t[i].goal_contribution
                      \/ t[j].goal_contribution = t[i].goal_contribution /\ j < i})]

\* ORDER BY goal_contribution DESC puts NULL last
SqlBefore(t, i, j) ==
    /\ t[i].goal_contribution # NULL
    /\ (t[j].goal_contribution = NULL \/ t[i].goal_contribution > t[j].goal_contribution)

\* ROW_NUMBER() OVER (PARTITION BY team_id ORDER BY goal_contribution DESC):
\* the numbers 1..n of each team in an order that agrees with the ORDER BY;
\* the order among rows of equal goal_contribution is not determined by the
\* query
SqlRankings(t) ==
    {rk \in [DOMAIN t -> 1..Len(t)] :
        \A i \in DOMAIN t :
            /\ rk[i] <= Cardinality({j \in DOMAIN t : SameTeam(t, i, j)})
            /\ \A j \in DOMAIN t :
                  (i # j /\ SameTeam(t, i, j)) =>
                      /\ rk[i] # rk[j]
                      /\ SqlBefore(t, i, j) => rk[i] < rk[j]}

\* filter(ranking <= 3), then the optional filter on team_id
Top3Rows(t, rk, team_id) ==
    {[player |-> i, team_id |-> t[i].team_id,
      goal_contribution |-> t[i].goal_contribution, ranking |-> rk[i]] :
        i \in {k \in DOMAIN t :
                  /\ rk[k] # NULL
                  /\ rk[k] <= 3
                  /\ (team_id = None \/ t[k].team_id = team_id)}}

get_team_top3(table, team_id) == Top3Rows(table, PolarsRanking(table), team_id)

InitTop3 ==
    /\ call \in Top3Calls
    /\ result = NoValue
    /\ PipelineIdle /\ ValidationIdle /\ AnalysisIdle

GetTeamTop3Polars ==
    /\ call.fn = "get_team_top3"
    /\ call.query_type = "polars"
    /\ ~result.done
    /\ result' = [done |-> TRUE, value |-> get_team_top3(call.table, call.team_id)]
    /\ UNCHANGED <<call, landing, datasets, transformed, trace, db, pc, log,
                   conn, runs, v_call, report, a_db, agg>>

GetTeamTop3Sql ==
    /\ call.fn = "get_team_top3"
    /\ call.query_type = "sql"
    /\ ~result.done
    /\ \E rk \in SqlRankings(call.table) :
          result' = [done |-> TRUE, value |-> Top3Rows(call.table, rk, call.team_id)]
    /\ UNCHANGED <<call, landing, datasets, transformed, trace, db, pc, log,
                   conn, runs, v_call, report, a_db, agg>>

NextTop3 ==
    \/ GetTeamTop3Polars
    \/ GetTeamTop3Sql

SpecTop3 == InitTop3 /\ [][NextTop3]_vars

\* ---- the parts of the claim on one output
Kept(out) == {o.player : o \in out}

InScope(c, i) == c.team_id = None \/ c.table[i].team_id = c.team_id

\* at most 3 rows per team, with the ranks 1..n of the team
RanksAreSequential(out) ==
    \A o \in out :
        LET team == {q \in out : q.team_id = o.team_id}
        IN /\ Cardinality(team) <= 3
           /\ {q.ranking : q \in team} = 1..Cardinality(team)
           /\ \A q \in team :
                 (q.ranking < o.ranking /\ o.goal_contribution # NULL)
                     => /\ q.goal_contribution # NULL
                        /\ q.goal_contribution >= o.goal_contribution

\* no kept player has a lower goal_contribution than an excluded player of
\* the same team, and a team with three ranked players or fewer keeps them
NoBetterPlayerExcluded(c, out) ==
    \A i \in DOMAIN c.table :
        (InScope(c, i) /\ i \notin Kept(out) /\ c.table[i].goal_contribution # NULL) =>
            /\ Cardinality({o \in out : o.team_id = c.table[i].team_id}) = 3
            /\ \A o \in out :
                  o.team_id = c.table[i].team_id =>
                      /\ o.goal_contribution # NULL
                      /\ o.goal_contribution >= c.table[i].goal_contribution

\* of two players of a team with the same goal_contribution the one that
\* arrived first has the lower rank
TiesInArrivalOrder(c, out) ==
    \A i, j \in DOMAIN c.table :
        (/\ i < j /\ SameTeam(c.table, i, j)
         /\ c.table[i].goal_contribution = c.table[j].goal_contribution
         /\ j \in Kept(out)) =>
            \E oi, oj \in out :
                oi.player = i /\ oj.player = j /\ oi.ranking < oj.ranking

\* C17: get_team_top3 keeps at most 3 players per team with
\* distinct sequential ranks by goal_contribution descending, ties ranked
\* in input/arrival order, and no kept player has a lower
\* goal_contribution than an excluded player of the same team.
C17_Top3TiesInArrivalOrder ==
    (result.done /\ call.fn = "get_team_top3") =>
        /\ RanksAreSequential(result.value)
        /\ NoBetterPlayerExcluded(call, result.value)
        /\ TiesInArrivalOrder(call, result.value)


\* ======================================================= ingest_from_raw
\* ingest_from_raw of ingestion.py over a raw directory. A directory maps
\* the names of its files to their content and to whether their
\* modification date is on or after last_ingestion_date.
RawNames == <<"a.json", "b.csv", "c.json", "d.txt">>

Suffix(name) ==
    IF name \in {"a.json", "c.json"} THEN ".json"
    ELSE IF name = "b.csv" THEN ".csv"
    ELSE ".txt"

Stem(name) ==
    IF name = "a.json" THEN "a"
    ELSE IF name = "b.csv" THEN "b"
    ELSE IF name = "c.json" THEN "c"
    ELSE "d"

\* json: a document, a document that is falsy in Python ([] or {}), an
\* empty file, text that is not JSON; csv: rows, a header without rows, a
\* file read_csv cannot read
ContentKinds(name) ==
    IF Suffix(name) = ".json" THEN {"valid", "falsy", "empty", "invalid"}
    ELSE IF Suffix(name) = ".csv" THEN {"rows", "no_rows", "unreadable"}
    ELSE {"text"}

AllKinds == UNION {ContentKinds(RawNames[k]) : k \in DOMAIN RawNames}

RawDirs ==
    UNION {{f \in [S -> [kind : AllKinds, recent : BOOLEAN]] :
                \A n \in S : f[n].kind \in ContentKinds(n)} :
           S \in {S \in SUBSET {RawNames[k] : k \in DOMAIN RawNames} :
                    Cardinality(S) <= MaxFiles}}

IngestCalls ==
    [fn : {"ingest_from_raw"}, dir : RawDirs, force : BOOLEAN, db_ok : BOOLEAN]

\* the glob of *.csv and *.json, filtered by date unless force, sorted by name
Selected(c) ==
    {n \in DOMAIN c.dir : /\ Suffix(n) \in {".csv", ".json"}
                          /\ (c.dir[n].recent \/ c.force)}

SortedFiles(c) ==
    LET Chosen(n) == n \in Selected(c)
    IN SelectSeq(RawNames, Chosen)

Unbound == [bound |-> FALSE, from |-> "", truthy |-> FALSE]

Starting ==
    [pc |-> "start", files |-> <<>>, i |-> 1, parsed |-> Unbound, dest |-> {},
     ingested_count |-> 0, config_updated |-> FALSE]

InitIngest ==
    /\ call \in IngestCalls
    /\ result = Starting
    /\ PipelineIdle /\ ValidationIdle /\ AnalysisIdle

IngestUnchanged ==
    UNCHANGED <<call, landing, datasets, transformed, trace, db, pc, log, conn,
                runs, v_call, report, a_db, agg>>

\* lines 99-137: when last_ingestion_date could not be read the name is
\* unbound, the listing raises and the function returns
ListFiles ==
    /\ call.fn = "ingest_from_raw"
    /\ result.pc = "start"
    /\ result' = IF call.db_ok
                 THEN [result EXCEPT !.pc = "loop", !.files = SortedFiles(call)]
                 ELSE [result EXCEPT !.pc = "returned"]
    /\ IngestUnchanged

WriteParquet(r, name, data) ==
    [r EXCEPT !.dest = {w \in r.dest : w.parquet # Stem(name)}
                       \cup {[parquet |-> Stem(name), file |-> name, data |-> data]},
              !.ingested_count = r.ingested_count + 1,
              !.i = r.i + 1]

Skip(r) == [r EXCEPT !.i = r.i + 1]

\* lines 146-154 and 186-202
CsvStep(c, r) ==
    LET file == r.files[r.i]
    IN IF c.dir[file].kind = "rows" THEN WriteParquet(r, file, file) ELSE Skip(r)

IngestCsv ==
    /\ result.pc = "loop"
    /\ result.i <= Len(result.files)
    /\ Suffix(result.files[result.i]) = ".csv"
    /\ result' = CsvStep(call, result)
    /\ IngestUnchanged

\* lines 155-180 and 186-202: parsed is a local of the function and keeps
\* its value from one file to the next; the handler of JSONDecodeError
\* reads it
JsonStep(c, r) ==
    LET file == r.files[r.i]
        kind == c.dir[file].kind
        parsed == [bound |-> TRUE, from |-> file, truthy |-> kind = "valid"]
    IN IF kind = "empty" THEN Skip(r)
       ELSE IF kind \in {"valid", "falsy"}
            THEN [WriteParquet(r, file, file) EXCEPT !.parsed = parsed]
       ELSE IF ~r.parsed.bound THEN Skip(r)
       ELSE IF ~r.parsed.truthy THEN Skip(r)
       ELSE WriteParquet(r, file, r.parsed.from)

IngestJson ==
    /\ result.pc = "loop"
    /\ result.i <= Len(result.files)
    /\ Suffix(result.files[result.i]) = ".json"
    /\ result' = JsonStep(call, result)
    /\ IngestUnchanged

\* lines 207-227
UpdateLastIngestionDate ==
    /\ result.pc = "loop"
    /\ result.i > Len(result.files)
    /\ result' = [result EXCEPT !.pc = "returned",
                                !.config_updated = result.ingested_count > 0]
    /\ IngestUnchanged

NextIngest ==
    \/ ListFiles
    \/ IngestCsv
    \/ IngestJson
    \/ UpdateLastIngestionDate

SpecIngest == InitIngest /\ [][NextIngest]_vars

Ingestable(c) ==
    {n \in Selected(c) : c.dir[n].kind \in {"rows", "valid", "falsy"}}

\* C20: ingest_from_raw never writes a landing parquet file for a source
\* file whose content is not valid JSON or whose suffix is unsupported,
\* whatever files were processed earlier in the run: after a run the
\* parquet files written are exactly those of the readable, non-empty CSV
\* files and the valid JSON files selected for ingestion.
C20_OnlyValidFilesIngested ==
    /\ \A w \in result.dest :
          /\ call.dir[w.file].kind # "invalid"
          /\ Suffix(w.file) \in {".csv", ".json"}
    /\ (result.pc = "returned" /\ call.db_ok) =>
          {w.file : w \in result.dest} = Ingestable(call)

Globbed(c) == {n \in DOMAIN c.dir : Suffix(n) \in {".csv", ".json"}}

FilesOf(r) == {r.files[k] : k \in DOMAIN r.files}

\* C21: with force=True ingest_from_raw takes every CSV and JSON file found
\* at path into the run, whatever last_ingestion_date is and whether or not
\* it can be read from the database; with force=False it takes exactly the
\* files whose modification date is on or after last_ingestion_date.
C21_ForceIgnoresLastIngestionDate ==
    result.pc = "returned" =>
        /\ call.force => FilesOf(result) = Globbed(call)
        /\ (~call.force /\ call.db_ok) =>
              FilesOf(result) = {n \in Globbed(call) : call.dir[n].recent}


\* ---- map_player_position
Categories == {"Goalkeeper", "Defender", "Midfielder", "Forward", "Unknown"}

\* C22: map_player_position returns one of Goalkeeper, Defender,
\* Midfielder, Forward, Unknown for every input: after lower-casing,
\* gk/goalkeeper give Goalkeeper, defender/cb/centre-back Defender,
\* midfielder/cm/central midfielder Midfielder, forward/striker/st Forward,
\* and null, the empty string, a whitespace-only string or any other string
\* gives Unknown.
C22_PositionMapsToCategory ==
    (result.done /\ call.fn = "map_player_position") =>
        LET low == IF call.arg = None THEN None ELSE lower(call.arg)
        IN /\ result.value \in Categories
           /\ low \in {"gk", "goalkeeper"} <=> result.value = "Goalkeeper"
           /\ low \in {"defender", "cb", "centre-back"} <=> result.value = "Defender"
           /\ low \in {"midfielder", "cm", "central midfielder"}
                 <=> result.value = "Midfielder"
           /\ low \in {"forward", "striker", "st"} <=> result.value = "Forward"
           /\ call.arg \in {None, "", "   ", " gk", "CENTER_BACK"}
                 => result.value = "Unknown"

C22_Witness ==
    /\ result.done
    /\ call.fn = "map_player_position"
    /\ call.arg = "Centre-Back"
    /\ result.value = "Defender"


\* ===================================== validation and transformation together
\* main() of validation.py and main() of transformation.py on the same landing
\* zone: load_and_validate_data reports on the raw datasets, transform_all
\* cleans them.
MaxCross == 2

CrossTeamRows == {[team_id |-> "T1", name |-> "n1"]}

CrossPlayerRows ==
    {[player_id |-> k[1], team_id |-> k[2], position |-> "gk",
      date_of_birth |-> IsoDate(1990, 12, 24), market_value |-> 7,
      contract_until |-> SlashDate(30, 6, 2027)] :
        k \in {<<"P1", "T1">>, <<"P2", "T2">>}}

CrossMatchRows ==
    {[match_id |-> "M1", home_score |-> 1, match_date |-> SlashDate(20, 1, 2024)]}

CrossStatRows ==
    {ValStatRow(p, "M1", ValStatBase) @@ [assists |-> 1] : p \in PlayerIds}

CrossEventRows ==
    {[ValEventRow("E1", "M1", "T1", ValEventBase) EXCEPT !.player_id = p] :
        p \in PlayerIds}

CrossLandings ==
    [teams : LandingFrames(CrossTeamRows, 1),
     players : LandingFrames(CrossPlayerRows, MaxCross),
     matches : LandingFrames(CrossMatchRows, 1),
     player_match_stats : LandingFrames(CrossStatRows, 1),
     match_events : LandingFrames(CrossEventRows, 1)]

ValidatorOf(name) ==
    CASE name = "teams" -> "validate_teams"
      [] name = "players" -> "validate_players"
      [] name = "matches" -> "validate_matches"
      [] name = "player_match_stats" -> "validate_player_match_stats"
      [] name = "match_events" -> "validate_match_events"

\* the datasets whose key column load_and_validate_data selects for the
\* validator of name
ParentsOf(name) ==
    CASE name = "players" -> {"teams"}
      [] name = "player_match_stats" -> {"players", "matches"}
      [] name = "match_events" -> {"matches", "teams", "players"}
      [] OTHER -> {}

\* datasets[parent].select(col).collect() on the raw frame
RawKeys(df, col) == {df.rows[i][col] : i \in DOMAIN df.rows}

\* One entity of load_and_validate_data: a frame without columns gets the
\* literal zero-count dictionary; otherwise the key columns of the raw parent
\* frames are selected (ColumnNotFoundError on a parent without columns) and
\* the validator is called.
EntityResults(ds, name) ==
    IF ~ds[name].cols
    THEN [NewResults(0) EXCEPT !.warnings = <<Warning("empty", 0, {})>>]
    ELSE IF \E p \in ParentsOf(name) : ~ds[p].cols
         THEN [NewResults(0) EXCEPT !.raised = TRUE]
         ELSE Validate(Call(ValidatorOf(name), ds[name],
                            RawKeys(ds.teams, "team_id"),
                            RawKeys(ds.players, "player_id"),
                            RawKeys(ds.matches, "match_id")))

\* nothing is caught inside load_and_validate_data: an exception in any
\* entity leaves the function without a dictionary
load_and_validate_data(l) ==
    LET ds == load_from_landing(l)
        rs == [e \in EntitySet |-> EntityResults(ds, e)]
    IN [raised |-> \E e \in EntitySet : rs[e].raised, results |-> rs]

NoReports == [done |-> FALSE, raised |-> FALSE, results |-> <<>>]

InitCross ==
    /\ landing \in CrossLandings
    /\ datasets = NoDatasets
    /\ transformed = NoDict
    /\ trace = <<>>
    /\ db = [t \in Tables |-> NoTable]
    /\ pc = "start"
    /\ log = {}
    /\ conn = "closed"
    /\ runs = 0
    /\ v_call = <<>>
    /\ report = NoReports
    /\ TransformIdle /\ AnalysisIdle

\* main() of validation.py: validation_results = load_and_validate_data()
LoadAndValidateData ==
    /\ ~report.done
    /\ LET v == load_and_validate_data(landing)
       IN report' = [done |-> TRUE, raised |-> v.raised, results |-> v.results]
    /\ UNCHANGED <<v_call, call, result, landing, datasets, transformed, trace,
                   db, pc, log, conn, runs, a_db, agg>>

NextCross ==
    \/ LoadFromLanding
    \/ TransformAll
    \/ LoadAndValidateData

SpecCross == InitCross /\ [][NextCross]_vars

\* the foreign keys of each child entity, with the warning that lists them
ForeignKeys(name) ==
    CASE name = "players" ->
            {[col |-> "team_id", parent |-> "teams", kind |-> "orphaned team ids"]}
      [] name = "player_match_stats" ->
            {[col |-> "player_id", parent |-> "players", kind |-> "orphaned player ids"],
             [col |-> "match_id", parent |-> "matches", kind |-> "orphaned match ids"]}
      [] name = "match_events" ->
            {[col |-> "match_id", parent |-> "matches", kind |-> "orphaned match ids"],
             [col |-> "team_id", parent |-> "teams", kind |-> "orphaned team ids"],
             [col |-> "player_id", parent |-> "players", kind |-> "orphaned player ids"]}
      [] OTHER -> {}

Listed(res, kind, value) ==
    \E w \in DOMAIN res.warnings :
        /\ res.warnings[w].kind = kind
        /\ \E k \in DOMAIN res.warnings[w].values : res.warnings[w].values[k] = value

\* C24: every row that transform_all drops from players, player_match_stats
\* or match_events because one of its foreign keys does not resolve to a
\* surviving cleaned parent row has that foreign-key value listed in an
\* orphan warning of the entity's report of load_and_validate_data on the
\* same landing data.
C24_DroppedOrphansAreReported ==
    (pc = "transformed" /\ report.done /\ ~report.raised) =>
        \A e \in {"players", "player_match_stats", "match_events"} :
            Has(transformed, e) =>
                \A i \in DOMAIN datasets[e].rows :
                    \A fk \in ForeignKeys(e) :
                        datasets[e].rows[i][fk.col]
                            \notin SelectKeys(transformed[fk.parent], fk.col)
                        => Listed(report.results[e], fk.kind,
                                  datasets[e].rows[i][fk.col])

\* C29: load_and_validate_data returns a report for each of the five
\* entities whichever landing datasets are present and whichever have no
\* columns: an entity without columns gets the zero-count report with the
\* 'dataset is empty' warning, and a parent without columns never makes the
\* validation of a child with rows fail.
C29_EveryEntityGetsAReport ==
    report.done =>
        /\ ~report.raised
        /\ \A e \in EntitySet :
              ~landing[e].cols =>
                  /\ report.results[e].total_rows = 0
                  /\ report.results[e].valid_rows = 0
                  /\ report.results[e].invalid_rows = 0
                  /\ WarningKinds(report.results[e]) = {"empty"}


\* ============================================================ filter_players
\* One call of filter_players on an aggregate table, as create_players_report
\* makes it. Seven of the 37 columns of param_map are kept: a counting stat,
\* a difference that can be negative, and ratios that can be null.
FilterColumns ==
    {"age", "goals", "g_xg", "shot_accuracy", "pass_accuracy",
     "interceptions_90", "duel_win_rate"}

\* g_xg in tenths, the ratios in hundredths
AggPlayerBase ==
    [position |-> "Midfielder", age |-> 25, goals |-> 6, g_xg |-> 25,
     shot_accuracy |-> 50, pass_accuracy |-> 80, interceptions_90 |-> 350,
     duel_win_rate |-> 60]

AggPlayerPayloads ==
    {AggPlayerBase,
     [AggPlayerBase EXCEPT !.g_xg = -5],
     [AggPlayerBase EXCEPT !.shot_accuracy = NULL],
     [AggPlayerBase EXCEPT !.pass_accuracy = 70],
     [AggPlayerBase EXCEPT !.position = "Defender"]}

AggPlayerRows == [player_id : PlayerIds, v : AggPlayerPayloads]

AggPlayerTables == {S \in SUBSET AggPlayerRows : UniqueBy(S, PlayerKey)}

\* the keyword arguments of the three calls of create_players_report, and a
\* call without any
PassedParams ==
    {[position |-> None, mins |-> {<<"goals", 5>>, <<"g_xg", 20>>}],
     [position |-> "Midfielder",
      mins |-> {<<"pass_accuracy", 75>>, <<"interceptions_90", 300>>,
                <<"duel_win_rate", 50>>}],
     [position |-> None, mins |-> {}]}

FilterCalls ==
    [fn : {"filter_players"}, query_type : {"polars", "sql"},
     table : AggPlayerTables, passed : PassedParams]

\* param_map: the <col>_min the caller passed or its default 0, and the
\* default None of <col>_max
ParamMap(passed) ==
    [c \in FilterColumns |->
        [min |-> IF \E p \in passed.mins : p[1] = c
                 THEN (CHOOSE p \in passed.mins : p[1] = c)[2]
                 ELSE 0,
         max |-> NULL]]

\* pl.col(col) >= min, col >= min in the WHERE clause: not true on a null
AtLeast(value, min) == value # NULL /\ value >= min

AtMost(value, max) == value # NULL /\ value <= max

\* the conjunction built over param_map.items() and the position; both
\* variants keep the rows for which every condition is true
filter_players(table, passed) ==
    LET param_map == ParamMap(passed)
    IN {r \in table :
          /\ \A c \in FilterColumns :
                /\ (param_map[c].min # NULL => AtLeast(r.v[c], param_map[c].min))
                /\ (param_map[c].max # NULL => AtMost(r.v[c], param_map[c].max))
          /\ (passed.position # None => r.v.position = passed.position)}

InitFilter ==
    /\ call \in FilterCalls
    /\ result = NoValue
    /\ PipelineIdle /\ ValidationIdle /\ AnalysisIdle

FilterPlayersPolars ==
    /\ call.query_type = "polars"
    /\ ReturnsValue("filter_players", filter_players(call.table, call.passed))

FilterPlayersSql ==
    /\ call.query_type = "sql"
    /\ ReturnsValue("filter_players", filter_players(call.table, call.passed))

NextFilter ==
    \/ FilterPlayersPolars
    \/ FilterPlayersSql

SpecFilter == InitFilter /\ [][NextFilter]_vars

\* C27: filter_players returns exactly the players of the aggregate that
\* satisfy the bounds and the position the caller passed; a criterion that
\* was not passed restricts nothing. The defensive-midfielders call returns
\* every Midfielder with pass_accuracy >= 0.75, interceptions_90 >= 3 and
\* duel_win_rate >= 0.5, whatever the other columns hold, and nobody else.
C27_OnlyPassedCriteriaRestrict ==
    result.done =>
        result.value =
            {r \in call.table :
               /\ \A p \in call.passed.mins : AtLeast(r.v[p[1]], p[2])
               /\ (call.passed.position # None =>
                      r.v.position = call.passed.position)}


\* ================================================================ elt_config
\* Runs of create_conf_database and of ingest_from_raw, in any order, on one
\* database. elt_config is the table as a list of last_ingestion_date
\* values, one per row; dates are days, DefaultDate being '1900-01-01'.
MaxConfigRuns == 3

MaxDay == 2

DefaultDate == 0

NoConfig == [exists |-> FALSE, rows |-> <<>>]

create_conf_databaseAlwaysInsert(elt_config) ==
    [exists |-> TRUE, rows |-> Append(elt_config.rows, DefaultDate)]

\* CREATE TABLE IF NOT EXISTS, then INSERT the default row when
\* SELECT COUNT(*) is 0
create_conf_database(elt_config) ==
    IF Len(elt_config.rows) = 0
    THEN [exists |-> TRUE, rows |-> <<DefaultDate>>]
    ELSE elt_config

\* SELECT last_ingestion_date FROM elt_config, fetchone()[0]: fails without
\* the table and on a table without rows
Readable(elt_config) == elt_config.exists /\ Len(elt_config.rows) > 0

\* for file in sorted(files): ...
RECURSIVE IngestLoop(_, _)
IngestLoop(c, r) ==
    IF r.i > Len(r.files) THEN r
    ELSE IF Suffix(r.files[r.i]) = ".csv" THEN IngestLoop(c, CsvStep(c, r))
    ELSE IngestLoop(c, JsonStep(c, r))

\* a whole run: the listing, the loop, and whether the UPDATE is issued
ingest_from_raw(c) ==
    IF ~c.db_ok THEN [Starting EXCEPT !.pc = "returned"]
    ELSE LET r == IngestLoop(c, [Starting EXCEPT !.files = SortedFiles(c)])
         IN [r EXCEPT !.pc = "returned", !.config_updated = r.ingested_count > 0]

\* UPDATE elt_config SET last_ingestion_date = today, on every row
UpdateConfig(elt_config, today_str) ==
    [elt_config EXCEPT !.rows = [k \in DOMAIN elt_config.rows |-> today_str]]

\* the raw directories of a run: at most a.json and b.csv; recent is the
\* outcome of comparing a file's modification date with the stored date
ConfigDirs == {d \in RawDirs : DOMAIN d \subseteq {"a.json", "b.csv"}}

InitConfig ==
    /\ db = NoConfig
    /\ runs = 0
    /\ call = [fn |-> "none", today |-> 1, before |-> NoConfig]
    /\ result = Starting
    /\ landing = <<>> /\ datasets = <<>> /\ transformed = <<>> /\ trace = <<>>
    /\ pc = "off" /\ log = {} /\ conn = "closed"
    /\ ValidationIdle /\ AnalysisIdle

ConfigUnchanged ==
    UNCHANGED <<landing, datasets, transformed, trace, pc, log, conn, v_call,
                report, a_db, agg>>

\* a run of create_conf_database on the date day
CreateConfDatabase ==
    /\ runs < MaxConfigRuns
    /\ \E day \in call.today..MaxDay :
          call' = [fn |-> "create_conf_database", today |-> day, before |-> db]
    /\ db' = create_conf_database(db)
    /\ result' = Starting
    /\ runs' = runs + 1
    /\ ConfigUnchanged

\* a run of ingest_from_raw on the date day
IngestFromRaw ==
    /\ runs < MaxConfigRuns
    /\ \E day \in call.today..MaxDay, d \in ConfigDirs, force \in BOOLEAN :
          LET c == [fn |-> "ingest_from_raw", dir |-> d, force |-> force,
                    db_ok |-> Readable(db), today |-> day, before |-> db]
              r == ingest_from_raw(c)
          IN /\ call' = c
             /\ result' = r
             /\ db' = IF r.config_updated THEN UpdateConfig(db, day) ELSE db
    /\ runs' = runs + 1
    /\ ConfigUnchanged

NextConfig ==
    \/ CreateConfDatabase
    \/ IngestFromRaw

SpecConfig == InitConfig /\ [][NextConfig]_vars

\* the stored date after a run of ingest_from_raw follows what the run wrote
DateFollowsIngestion ==
    call.fn = "ingest_from_raw" =>
        /\ result.dest # {} =>
              /\ Readable(db)
              /\ \A k \in DOMAIN db.rows : db.rows[k] = call.today
        /\ result.dest = {} => db = call.before
        /\ \A k \in DOMAIN db.rows :
              k \in DOMAIN call.before.rows /\ db.rows[k] >= call.before.rows[k]

\* C30 as stated: after any sequence of runs of create_conf_database and
\* ingest_from_raw elt_config holds exactly one row, a run of ingest_from_raw
\* sets last_ingestion_date to the current date if and only if it wrote at
\* least one parquet file, and the stored date never moves backwards.
C30_OneRowAfterAnyRun ==
    /\ runs > 0 => Len(db.rows) = 1
    /\ DateFollowsIngestion

\* C30, amended: the same from the first run of create_conf_database on;
\* before it elt_config does not exist and ingest_from_raw writes nothing.
C30_OneRowOnceCreated ==
    /\ db.exists => Len(db.rows) = 1
    /\ ~db.exists => (call.fn = "ingest_from_raw" => result.dest = {})
    /\ DateFollowsIngestion

C30_Witness ==
    /\ runs = 3
    /\ call.fn = "ingest_from_raw"
    /\ call.before.rows = <<1>>
    /\ result.dest # {}
    /\ call.today = 2
    /\ db.rows = <<2>>

====
